---- MODULE Spec2Model ----
(***************************************************************************)
(* Model of the update-orchestration engine of ovh-dyndns-client:          *)
(* UpdateDnsController (application/controller.py) running against the     *)
(* SQLite repository (infrastructure/database/repository.py), the IP      *)
(* provider and the DNS updater.  Every port call of the controller is one *)
(* atomic step of the invocation that makes it (one database transaction  *)
(* or one network call).  Around the controller: the scheduler thread of   *)
(* main.py, the settings it reads, the bindings held by the DNS provider   *)
(* and the OVH client (infrastructure/clients/ovh_client.py).              *)
(***************************************************************************)
EXTENDS Integers, Sequences, FiniteSets, TLC

\* ------------------------------------------------------------------ bounds
MaxOps == 3        \* controller invocations (handler / force_update_host) per run
MaxHistory == 5    \* rows of the history table

\* --------------------------------------------------------------- constants
None == "None"     \* a NULL string column / Python None
NoTime == 0        \* a NULL DateTime column
NoIp == 0          \* "no address" in a local variable of the controller

\* hostnames the administration and the API may name
HostNames == {"h1", "h2"}

\* address values (the integer an ipaddress object wraps) and their text
IPs == {1, 2}
IpText == <<"192.168.1.1", "192.168.1.2">>

\* str(ip): canonical text of an address
IpStr(ip) == IpText[ip]

\* IPvAnyAddress(text): parse, address value of a canonical text
IpParse(text) == CHOOSE a \in DOMAIN IpText : IpText[a] = text

\* the two invocation contexts of main.py: the scheduler thread and the
\* request handlers of the administration API
Threads == {"scheduler", "api"}

\* outcomes of DnsUpdater.update_ip(host, ip): a (success, error) pair or an
\* exception; of IpProvider.get_public_ip(): an address or an exception
UpdaterOutcomes ==
    { [raised |-> FALSE, ok |-> TRUE,  err |-> None],
      [raised |-> FALSE, ok |-> FALSE, err |-> "X"],
      [raised |-> TRUE,  ok |-> FALSE, err |-> "E"] }

NoOutcome == [raised |-> FALSE, ok |-> FALSE, err |-> None]

VARIABLES
    hosts,      \* table hosts, in row order: <<[id, hostname, username, password,
                \*   last_status, last_error, last_update]>>
    state,      \* table state, row id=1: [exists, current_ip, last_check]
    history,    \* table history, in insertion order
    clock,      \* datetime.now(): number of controller invocations started
    th,         \* per thread: the controller invocation (or API request) it runs
    dns,        \* at the DNS provider: the address each hostname is bound to
    settings,   \* table settings, row id=1: [exists, update_interval]
    sch,        \* SchedulerThread: position in run() and its local variables
    stop,       \* SchedulerThread._stop_event
    req,        \* one OvhClient.update_ip call: what the network did, what it returned
    lap         \* the last two handler invocations that ran at the same time

schedVars == <<settings, sch, stop>>

vars == <<hosts, state, history, clock, th, dns, settings, sch, stop, req, lap>>

\* ------------------------------------------------------------ repository

\* State row before init / first write
NoState == [exists |-> FALSE, current_ip |-> None, last_check |-> NoTime]

\* SqliteRepository.get_ip on a State row st
StoredIp(st) ==
    IF st.exists /\ st.current_ip # None
    THEN IpParse(st.current_ip)
    ELSE NoIp

get_ip == StoredIp(state)

HistoryRow(ip, action, hostname, details) ==
    [ip |-> ip, action |-> action, hostname |-> hostname, details |-> details]

\* SqliteRepository.set_ip: new State row and new history
set_ip_state(ip) ==
    [exists |-> TRUE, current_ip |-> IpStr(ip), last_check |-> clock]

\* set_ip_history without `if old_ip != ip_str`
set_ip_history_always(ip) ==
    LET ip_str == IpStr(ip)
        old_ip == IF state.exists THEN state.current_ip ELSE None
    IN  Append(history, HistoryRow(ip_str, "ip_changed", None, <<old_ip, ip_str>>))

set_ip_history(ip) ==
    LET ip_str == IpStr(ip)
        old_ip == IF state.exists THEN state.current_ip ELSE None
    IN  IF old_ip # ip_str
        THEN Append(history, HistoryRow(ip_str, "ip_changed", None, <<old_ip, ip_str>>))
        ELSE history

\* IpStateStore.update_last_check
update_last_check_state ==
    [exists |-> TRUE, current_ip |-> state.current_ip, last_check |-> clock]

\* SqliteRepository.get_hosts on a hosts table hs: hostnames in row order
NamesOf(hs) == [n \in 1..Len(hs) |-> hs[n].hostname]

get_hosts == NamesOf(hosts)

\* HostsRepository.get_pending_hosts on a hosts table hs: the hosts whose
\* last update failed or that were never updated
PendingOf(hs) == NamesOf(SelectSeq(hs, LAMBDA r : r.last_status # "True"))

get_pending_hosts == PendingOf(hosts)

\* HostsRepository.get_host_by_hostname: does a row with that name exist
HostExists(hostname) == \E n \in 1..Len(hosts) : hosts[n].hostname = hostname

get_host_by_hostname(hostname) == IF HostExists(hostname) THEN hostname ELSE None

\* SqliteRepository.update_host_status: new hosts table and new history
update_host_status_hosts(hostname, success, error) ==
    [n \in 1..Len(hosts) |->
        IF hosts[n].hostname = hostname
        THEN [hosts[n] EXCEPT !.last_update = clock,
                              !.last_status = IF success THEN "True" ELSE "False",
                              !.last_error = error]
        ELSE hosts[n]]

\* update_host_status_history without `if host:`: the event is logged for a
\* hostname that has no row
update_host_status_history_unguarded(hostname, success, error) ==
    Append(history, HistoryRow(None,
                               IF success THEN "host_updated" ELSE "host_failed",
                               hostname,
                               IF error # None THEN error ELSE "DNS update successful"))

update_host_status_history(hostname, success, error) ==
    IF HostExists(hostname)
    THEN Append(history, HistoryRow(None,
                                    IF success THEN "host_updated" ELSE "host_failed",
                                    hostname,
                                    IF error # None THEN error ELSE "DNS update successful"))
    ELSE history

\* the provider's bindings after an update request for hostname with address
\* ip that it answered with out: an accepted request ("good" / "nochg") leaves
\* the hostname bound to ip
Bound(hostname, ip, out) ==
    IF ~out.raised /\ out.ok
    THEN [dns EXCEPT ![hostname] = ip]
    ELSE dns

\* --------------------------------------------------------- invocations

Snapshot == [hosts |-> hosts, state |-> state, history |-> history]

\* a thread that runs no controller invocation
Idle ==
    [op |-> "idle", pc |-> "idle", arg |-> None, ip |-> NoIp, sel |-> <<>>,
     i |-> 1, res |-> NoOutcome, calls |-> <<>>, ret |-> "none", msg |-> None,
     row |-> NoState, began |-> 0,
     pre |-> [hosts |-> <<>>, state |-> NoState, history |-> <<>>]]

\* one port call as the controller made it
Call(port, host, ip, res) == [port |-> port, host |-> host, ip |-> ip, res |-> res]

Free(t) == th[t].pc = "idle"

\* no controller invocation is in progress
Quiescent == \A t \in Threads : Free(t)

HistoryRoom == Len(history) < MaxHistory

\* update intervals the settings can hold, and the one a new settings row
\* gets (the default of Settings.update_interval); an interval is counted in
\* sleep slices, and the model keeps the intervals short
Intervals == {1, 2}
DefaultInterval == 2

\* the settings row written by init_default_settings at start-up
DefaultSettings == [exists |-> TRUE, update_interval |-> DefaultInterval]

\* SchedulerThread after __init__: run() not entered, _interval = None
NewScheduler ==
    [pc |-> "new", interval |-> 0, self_interval |-> 0, slept |-> 0,
     changed |-> FALSE, caught |-> FALSE, late_cycles |-> 0, late_slices |-> 0]

\* no two handler invocations have run at the same time; otherwise b and c
\* are the IPs the two discovered, in the order of the discoveries, and at is
\* the clock at the second discovery
NoLap == [b |-> NoIp, c |-> NoIp, at |-> 0]

\* no OvhClient.update_ip call in progress
NoRequest == [pc |-> "idle", net |-> None, status |-> 0, body |-> <<>>, ret |-> None]

Init ==
    /\ hosts = <<>>
    /\ state = NoState
    /\ history = <<>>
    /\ clock = 0
    /\ th = [t \in Threads |-> Idle]
    /\ dns = [h \in HostNames |-> NoIp]
    /\ settings = DefaultSettings
    /\ sch = NewScheduler
    /\ stop = FALSE
    /\ req = NoRequest
    /\ lap = NoLap

\* ------------------------------------------------- administration (hosts)

NextId == IF hosts = <<>> THEN 1 ELSE hosts[Len(hosts)].id + 1

\* create_host that gives the new row status success
create_host_in_success(hostname) ==
    /\ HistoryRoom
    /\ IF HostExists(hostname)
       THEN UNCHANGED <<hosts, history>>
       ELSE /\ hosts' = Append(hosts, [id |-> NextId, hostname |-> hostname,
                                       username |-> "u1", password |-> "p1",
                                       last_status |-> "True", last_error |-> None,
                                       last_update |-> NoTime])
            /\ history' = Append(history, HistoryRow(None, "host_created", hostname, hostname))
    /\ UNCHANGED <<state, clock, th, dns, schedVars, req, lap>>

\* SqliteRepository.create_host; the UNIQUE constraint on hostname makes the
\* INSERT of an existing name fail and the transaction roll back; every host
\* is created with the same username and password
create_host(hostname) ==
    /\ HistoryRoom
    /\ IF HostExists(hostname)
       THEN UNCHANGED <<hosts, history>>
       ELSE /\ hosts' = Append(hosts, [id |-> NextId, hostname |-> hostname,
                                       username |-> "u1", password |-> "p1",
                                       last_status |-> None, last_error |-> None,
                                       last_update |-> NoTime])
            /\ history' = Append(history, HistoryRow(None, "host_created", hostname, hostname))
    /\ UNCHANGED <<state, clock, th, dns, schedVars, req, lap>>

\* update_host that clears the outcome of the last update of the edited host
update_host_reset_status(host_id, hostname, username, password) ==
    /\ HistoryRoom
    /\ IF \A n \in 1..Len(hosts) : hosts[n].id # host_id
       THEN UNCHANGED <<hosts, history>>
       ELSE LET n == CHOOSE n \in 1..Len(hosts) : hosts[n].id = host_id
                host == [hosts[n] EXCEPT
                            !.hostname = IF hostname # None THEN hostname ELSE @,
                            !.username = IF username # None THEN username ELSE @,
                            !.password = IF password # None THEN password ELSE @,
                            !.last_status = None, !.last_error = None,
                            !.last_update = NoTime]
            IN  IF \E m \in 1..Len(hosts) : m # n /\ hosts[m].hostname = host.hostname
                THEN UNCHANGED <<hosts, history>>
                ELSE /\ hosts' = [hosts EXCEPT ![n] = host]
                     /\ history' = Append(history, HistoryRow(None, "host_updated",
                                                              host.hostname, host.hostname))
    /\ UNCHANGED <<state, clock, th, dns, schedVars, req, lap>>

\* SqliteRepository.update_host: None for an argument that is not given; an
\* unknown id returns None; the UNIQUE constraint on hostname makes the
\* UPDATE at commit fail and the transaction roll back
update_host(host_id, hostname, username, password) ==
    /\ HistoryRoom
    /\ IF \A n \in 1..Len(hosts) : hosts[n].id # host_id
       THEN UNCHANGED <<hosts, history>>
       ELSE LET n == CHOOSE n \in 1..Len(hosts) : hosts[n].id = host_id
                host == [hosts[n] EXCEPT
                            !.hostname = IF hostname # None THEN hostname ELSE @,
                            !.username = IF username # None THEN username ELSE @,
                            !.password = IF password # None THEN password ELSE @]
            IN  IF \E m \in 1..Len(hosts) : m # n /\ hosts[m].hostname = host.hostname
                THEN UNCHANGED <<hosts, history>>
                ELSE /\ hosts' = [hosts EXCEPT ![n] = host]
                     /\ history' = Append(history, HistoryRow(None, "host_updated",
                                                              host.hostname, host.hostname))
    /\ UNCHANGED <<state, clock, th, dns, schedVars, req, lap>>

\* SqliteRepository.delete_host
delete_host(hostname) ==
    /\ HistoryRoom
    /\ HostExists(hostname)
    /\ hosts' = SelectSeq(hosts, LAMBDA r : r.hostname # hostname)
    /\ history' = Append(history, HistoryRow(None, "host_deleted", hostname, hostname))
    /\ UNCHANGED <<state, clock, th, dns, schedVars, req, lap>>

\* ------------------------------------------- UpdateDnsController.handler

\* the clock at which an invocation begins if no other invocation is in
\* progress then, 0 if one is
Stamp == IF Quiescent THEN clock + 1 ELSE 0

\* thread t enters handler()
HandlerBegin(t) ==
    /\ Free(t)
    /\ clock < MaxOps
    /\ clock' = clock + 1
    /\ th' = [th EXCEPT ![t] = [Idle EXCEPT !.op = "handler", !.pc = "discover",
                                            !.began = Stamp, !.pre = Snapshot]]

HandlerStart(t) ==
    /\ HandlerBegin(t)
    /\ UNCHANGED <<hosts, state, history, dns, schedVars, req, lap>>

\* the threads whose handler invocation has discovered its IP and has port
\* calls left to make while thread t discovers
Ahead(t) ==
    {u \in Threads \ {t} : th[u].op = "handler" /\ th[u].ip # NoIp /\ th[u].pc # "done"}

\* lap once thread t has discovered ip
Lapped(t, ip) ==
    IF Ahead(t) # {}
    THEN [b |-> th[CHOOSE u \in Ahead(t) : TRUE].ip, c |-> ip, at |-> clock]
    ELSE lap

\* HandlerDiscover with update_last_check() made before the discovery
HandlerDiscoverCheckFirst(t) ==
    /\ th[t].op = "handler" /\ th[t].pc = "discover"
    /\ state' = update_last_check_state
    /\ \/ \E ip \in IPs :
            /\ th' = [th EXCEPT ![t].ip = ip, ![t].pc = "last_check",
                                ![t].calls = Append(@, Call("get_public_ip", None, ip, NoOutcome))]
            /\ lap' = Lapped(t, ip)
       \/ /\ th' = [th EXCEPT ![t].pc = "done", ![t].ret = "RuntimeError",
                              ![t].msg = "DynDNS update failed",
                              ![t].calls = Append(@, Call("get_public_ip", None, NoIp,
                                                          [raised |-> TRUE, ok |-> FALSE, err |-> "E"]))]
          /\ lap' = lap
    /\ UNCHANGED <<hosts, history, clock, dns, schedVars, req>>

\* ip = self.ip_provider.get_public_ip(); an exception reaches the except
\* clause of handler, which raises RuntimeError("DynDNS update failed")
HandlerDiscover(t) ==
    /\ th[t].op = "handler" /\ th[t].pc = "discover"
    /\ \/ \E ip \in IPs :
            /\ th' = [th EXCEPT ![t].ip = ip, ![t].pc = "last_check",
                                ![t].calls = Append(@, Call("get_public_ip", None, ip, NoOutcome))]
            /\ lap' = Lapped(t, ip)
       \/ /\ th' = [th EXCEPT ![t].pc = "done", ![t].ret = "RuntimeError",
                              ![t].msg = "DynDNS update failed",
                              ![t].calls = Append(@, Call("get_public_ip", None, NoIp,
                                                          [raised |-> TRUE, ok |-> FALSE, err |-> "E"]))]
          /\ lap' = lap
    /\ UNCHANGED <<hosts, state, history, clock, dns, schedVars, req>>

\* HandlerLastCheck left out: last_check written by set_ip alone
HandlerLastCheckSkipped(t) ==
    /\ th[t].op = "handler" /\ th[t].pc = "last_check"
    /\ th' = [th EXCEPT ![t].pc = "compare"]
    /\ UNCHANGED <<hosts, state, history, clock, dns, schedVars, req, lap>>

\* self.ip_state.update_last_check()
HandlerLastCheck(t) ==
    /\ th[t].op = "handler" /\ th[t].pc = "last_check"
    /\ state' = update_last_check_state
    /\ th' = [th EXCEPT ![t].pc = "compare",
                        ![t].calls = Append(@, Call("update_last_check", None, NoIp, NoOutcome))]
    /\ UNCHANGED <<hosts, history, clock, dns, schedVars, req, lap>>

\* HandlerCompare that takes the Changed branch whatever the stored IP
HandlerCompareAlwaysChanged(t) ==
    /\ th[t].op = "handler" /\ th[t].pc = "compare"
    /\ th' = [th EXCEPT ![t].pc = "set_ip",
                        ![t].calls = Append(@, Call("get_ip", None, get_ip, NoOutcome))]
    /\ UNCHANGED <<hosts, state, history, clock, dns, schedVars, req, lap>>

\* HandlerCompare whose Changed branch reads the hosts before set_ip is called
HandlerCompareNoPersist(t) ==
    /\ th[t].op = "handler" /\ th[t].pc = "compare"
    /\ th' = [th EXCEPT ![t].pc = IF th[t].ip = get_ip THEN "pending" ELSE "get_hosts",
                        ![t].calls = Append(@, Call("get_ip", None, get_ip, NoOutcome))]
    /\ UNCHANGED <<hosts, state, history, clock, dns, schedVars, req, lap>>

\* if ip == self.ip_state.get_ip()
HandlerCompare(t) ==
    /\ th[t].op = "handler" /\ th[t].pc = "compare"
    /\ th' = [th EXCEPT ![t].pc = IF th[t].ip = get_ip THEN "pending" ELSE "set_ip",
                        ![t].calls = Append(@, Call("get_ip", None, get_ip, NoOutcome))]
    /\ UNCHANGED <<hosts, state, history, clock, dns, schedVars, req, lap>>

\* HandlerPending that reconciles every host as soon as one is pending
HandlerPendingAllHosts(t) ==
    /\ th[t].op = "handler" /\ th[t].pc = "pending"
    /\ th' = [th EXCEPT ![t].sel = IF get_pending_hosts # <<>> THEN get_hosts ELSE <<>>,
                        ![t].i = 1,
                        ![t].pc = IF get_pending_hosts # <<>> THEN "update" ELSE "done",
                        ![t].ret = IF get_pending_hosts # <<>> THEN @ ELSE "ok",
                        ![t].calls = Append(@, Call("get_pending_hosts", None, NoIp, NoOutcome))]
    /\ UNCHANGED <<hosts, state, history, clock, dns, schedVars, req, lap>>

\* pending_hosts = self.hosts_repo.get_pending_hosts(); if pending_hosts: ...
HandlerPending(t) ==
    /\ th[t].op = "handler" /\ th[t].pc = "pending"
    /\ th' = [th EXCEPT ![t].sel = get_pending_hosts, ![t].i = 1,
                        ![t].pc = IF get_pending_hosts # <<>> THEN "update" ELSE "done",
                        ![t].ret = IF get_pending_hosts # <<>> THEN @ ELSE "ok",
                        ![t].calls = Append(@, Call("get_pending_hosts", None, NoIp, NoOutcome))]
    /\ UNCHANGED <<hosts, state, history, clock, dns, schedVars, req, lap>>

\* self.ip_state.set_ip(ip)
HandlerSetIp(t) ==
    /\ th[t].op = "handler" /\ th[t].pc = "set_ip"
    /\ IpStr(th[t].ip) # (IF state.exists THEN state.current_ip ELSE None) => HistoryRoom
    /\ state' = set_ip_state(th[t].ip)
    /\ history' = set_ip_history(th[t].ip)
    /\ th' = [th EXCEPT ![t].pc = "get_hosts",
                        ![t].calls = Append(@, Call("set_ip", None, th[t].ip, NoOutcome))]
    /\ UNCHANGED <<hosts, clock, dns, schedVars, req, lap>>

\* HandlerGetHosts that reconciles the pending hosts only after an IP change
HandlerGetHostsPendingOnly(t) ==
    /\ th[t].op = "handler" /\ th[t].pc = "get_hosts"
    /\ th' = [th EXCEPT ![t].sel = get_pending_hosts, ![t].i = 1, ![t].pc = "update",
                        ![t].calls = Append(@, Call("get_hosts", None, NoIp, NoOutcome))]
    /\ UNCHANGED <<hosts, state, history, clock, dns, schedVars, req, lap>>

\* self.update_hosts_ip(self.hosts_repo.get_hosts(), ip)
HandlerGetHosts(t) ==
    /\ th[t].op = "handler" /\ th[t].pc = "get_hosts"
    /\ th' = [th EXCEPT ![t].sel = get_hosts, ![t].i = 1, ![t].pc = "update",
                        ![t].calls = Append(@, Call("get_hosts", None, NoIp, NoOutcome))]
    /\ UNCHANGED <<hosts, state, history, clock, dns, schedVars, req, lap>>

\* UpdateCall without the try: an exception of the updater leaves
\* update_hosts_ip and handler raises RuntimeError
UpdateCallRaiseAborts(t) ==
    /\ th[t].op = "handler" /\ th[t].pc = "update"
    /\ IF th[t].i > Len(th[t].sel)
       THEN /\ th' = [th EXCEPT ![t].pc = "done", ![t].ret = "ok"]
            /\ dns' = dns
       ELSE \E out \in UpdaterOutcomes :
              /\ th' = [th EXCEPT ![t].res = out,
                                  ![t].pc = IF out.raised THEN "done" ELSE "status",
                                  ![t].ret = IF out.raised THEN "RuntimeError" ELSE @,
                                  ![t].calls = Append(@, Call("update_ip", th[t].sel[th[t].i],
                                                              th[t].ip, out))]
              /\ dns' = Bound(th[t].sel[th[t].i], th[t].ip, out)
    /\ UNCHANGED <<hosts, state, history, clock, schedVars, req, lap>>

\* update_hosts_ip: for host in hosts: success, error_message =
\* self.dns_updater.update_ip(host, ip); the loop ends the invocation
UpdateCall(t) ==
    /\ th[t].op = "handler" /\ th[t].pc = "update"
    /\ IF th[t].i > Len(th[t].sel)
       THEN /\ th' = [th EXCEPT ![t].pc = "done", ![t].ret = "ok"]
            /\ dns' = dns
       ELSE \E out \in UpdaterOutcomes :
              /\ th' = [th EXCEPT ![t].res = out, ![t].pc = "status",
                                  ![t].calls = Append(@, Call("update_ip", th[t].sel[th[t].i],
                                                              th[t].ip, out))]
              /\ dns' = Bound(th[t].sel[th[t].i], th[t].ip, out)
    /\ UNCHANGED <<hosts, state, history, clock, schedVars, req, lap>>

\* UpdateStatus that keeps the outcome for later: nothing is persisted
\* before the next host is attempted
UpdateStatusDeferred(t) ==
    /\ th[t].op = "handler" /\ th[t].pc = "status"
    /\ th' = [th EXCEPT ![t].i = @ + 1, ![t].pc = "update"]
    /\ UNCHANGED <<hosts, state, history, clock, dns, schedVars, req, lap>>

\* UpdateStatus that leaves the loop at the first host that failed
UpdateStatusBreakOnFailure(t) ==
    /\ th[t].op = "handler" /\ th[t].pc = "status"
    /\ LET hostname == th[t].sel[th[t].i]
           success == IF th[t].res.raised THEN FALSE ELSE th[t].res.ok
           error == th[t].res.err
       IN  /\ HostExists(hostname) => HistoryRoom
           /\ hosts' = update_host_status_hosts(hostname, success, error)
           /\ history' = update_host_status_history(hostname, success, error)
           /\ th' = [th EXCEPT ![t].i = IF success THEN @ + 1 ELSE Len(th[t].sel) + 1,
                               ![t].pc = "update",
                               ![t].calls = Append(@, Call("update_host_status", hostname, NoIp,
                                                           [raised |-> FALSE, ok |-> success,
                                                            err |-> error]))]
    /\ UNCHANGED <<state, clock, dns, schedVars, req, lap>>

\* UpdateStatus that records every attempt as a success
UpdateStatusAlwaysSuccess(t) ==
    /\ th[t].op = "handler" /\ th[t].pc = "status"
    /\ LET hostname == th[t].sel[th[t].i]
           error == th[t].res.err
       IN  /\ HostExists(hostname) => HistoryRoom
           /\ hosts' = update_host_status_hosts(hostname, TRUE, error)
           /\ history' = update_host_status_history(hostname, TRUE, error)
           /\ th' = [th EXCEPT ![t].i = @ + 1, ![t].pc = "update",
                               ![t].calls = Append(@, Call("update_host_status", hostname, NoIp,
                                                           [raised |-> FALSE, ok |-> TRUE,
                                                            err |-> error]))]
    /\ UNCHANGED <<state, clock, dns, schedVars, req, lap>>

\* update_hosts_ip: self.hosts_repo.update_host_status(hostname, success,
\* error_message), or in the except clause (hostname, False, str(e))
UpdateStatus(t) ==
    /\ th[t].op = "handler" /\ th[t].pc = "status"
    /\ LET hostname == th[t].sel[th[t].i]
           success == IF th[t].res.raised THEN FALSE ELSE th[t].res.ok
           error == th[t].res.err
       IN  /\ HostExists(hostname) => HistoryRoom
           /\ hosts' = update_host_status_hosts(hostname, success, error)
           /\ history' = update_host_status_history(hostname, success, error)
           /\ th' = [th EXCEPT ![t].i = @ + 1, ![t].pc = "update",
                               ![t].calls = Append(@, Call("update_host_status", hostname, NoIp,
                                                           [raised |-> FALSE, ok |-> success,
                                                            err |-> error]))]
    /\ UNCHANGED <<state, clock, dns, schedVars, req, lap>>

\* handler returns (or raises) to its caller
HandlerReturn(t) ==
    /\ th[t].op = "handler" /\ th[t].pc = "done"
    /\ th' = [th EXCEPT ![t] = Idle]
    /\ UNCHANGED <<hosts, state, history, clock, dns, schedVars, req, lap>>

HandlerStep(t) ==
    \/ HandlerDiscover(t)
    \/ HandlerLastCheck(t)
    \/ HandlerCompare(t)
    \/ HandlerPending(t)
    \/ HandlerSetIp(t)
    \/ HandlerGetHosts(t)
    \/ UpdateCall(t)
    \/ UpdateStatus(t)
    \/ HandlerReturn(t)

\* --------------------------------- UpdateDnsController.force_update_host

ForceStart(t, hostname) ==
    /\ Free(t)
    /\ clock < MaxOps
    /\ clock' = clock + 1
    /\ th' = [th EXCEPT ![t] = [Idle EXCEPT !.op = "force", !.pc = "lookup",
                                            !.arg = hostname, !.began = Stamp,
                                            !.pre = Snapshot]]
    /\ UNCHANGED <<hosts, state, history, dns, schedVars, req, lap>>

\* ForceLookup without the early return for an unknown hostname
ForceLookupNoReturn(t) ==
    /\ th[t].op = "force" /\ th[t].pc = "lookup"
    /\ th' = [th EXCEPT ![t].pc = "f_get_ip", ![t].sel = <<th[t].arg>>,
                        ![t].calls = Append(@, Call("get_host_by_hostname", th[t].arg,
                                                    NoIp, NoOutcome))]
    /\ UNCHANGED <<hosts, state, history, clock, dns, schedVars, req, lap>>

\* host = self.hosts_repo.get_host_by_hostname(hostname); if not host: return
ForceLookup(t) ==
    /\ th[t].op = "force" /\ th[t].pc = "lookup"
    /\ th' = IF get_host_by_hostname(th[t].arg) = None
             THEN [th EXCEPT ![t].pc = "done", ![t].ret = "False", ![t].msg = "not found",
                             ![t].calls = Append(@, Call("get_host_by_hostname", th[t].arg,
                                                         NoIp, NoOutcome))]
             ELSE [th EXCEPT ![t].pc = "f_get_ip", ![t].sel = <<th[t].arg>>,
                             ![t].calls = Append(@, Call("get_host_by_hostname", th[t].arg,
                                                         NoIp, NoOutcome))]
    /\ UNCHANGED <<hosts, state, history, clock, dns, schedVars, req, lap>>

\* ForceGetIp that discovers the IP again although one is stored
ForceGetIpAlwaysDiscover(t) ==
    /\ th[t].op = "force" /\ th[t].pc = "f_get_ip"
    /\ th' = [th EXCEPT ![t].ip = get_ip, ![t].pc = "f_discover",
                        ![t].calls = Append(@, Call("get_ip", None, get_ip, NoOutcome))]
    /\ UNCHANGED <<hosts, state, history, clock, dns, schedVars, req, lap>>

\* ip = self.ip_state.get_ip(); if not ip: ...
ForceGetIp(t) ==
    /\ th[t].op = "force" /\ th[t].pc = "f_get_ip"
    /\ th' = [th EXCEPT ![t].ip = get_ip,
                        ![t].pc = IF get_ip = NoIp THEN "f_discover" ELSE "f_last_check",
                        ![t].calls = Append(@, Call("get_ip", None, get_ip, NoOutcome))]
    /\ UNCHANGED <<hosts, state, history, clock, dns, schedVars, req, lap>>

\* ip = self.ip_provider.get_public_ip(); an exception reaches the except
\* clause of force_update_host
ForceDiscover(t) ==
    /\ th[t].op = "force" /\ th[t].pc = "f_discover"
    /\ \/ \E ip \in IPs :
            th' = [th EXCEPT ![t].ip = ip, ![t].pc = "f_set_ip",
                             ![t].calls = Append(@, Call("get_public_ip", None, ip, NoOutcome))]
       \/ th' = [th EXCEPT ![t].pc = "f_except",
                           ![t].res = [raised |-> TRUE, ok |-> FALSE, err |-> "E"],
                           ![t].calls = Append(@, Call("get_public_ip", None, NoIp,
                                                       [raised |-> TRUE, ok |-> FALSE, err |-> "E"]))]
    /\ UNCHANGED <<hosts, state, history, clock, dns, schedVars, req, lap>>

\* ForceSetIp that does not persist the discovered IP
ForceSetIpSkipped(t) ==
    /\ th[t].op = "force" /\ th[t].pc = "f_set_ip"
    /\ th' = [th EXCEPT ![t].pc = "f_last_check"]
    /\ UNCHANGED <<hosts, state, history, clock, dns, schedVars, req, lap>>

\* self.ip_state.set_ip(ip)
ForceSetIp(t) ==
    /\ th[t].op = "force" /\ th[t].pc = "f_set_ip"
    /\ IpStr(th[t].ip) # (IF state.exists THEN state.current_ip ELSE None) => HistoryRoom
    /\ state' = set_ip_state(th[t].ip)
    /\ history' = set_ip_history(th[t].ip)
    /\ th' = [th EXCEPT ![t].pc = "f_last_check",
                        ![t].calls = Append(@, Call("set_ip", None, th[t].ip, NoOutcome))]
    /\ UNCHANGED <<hosts, clock, dns, schedVars, req, lap>>

\* ForceLastCheck that leaves last_check alone
ForceLastCheckSkipped(t) ==
    /\ th[t].op = "force" /\ th[t].pc = "f_last_check"
    /\ th' = [th EXCEPT ![t].pc = "f_update"]
    /\ UNCHANGED <<hosts, state, history, clock, dns, schedVars, req, lap>>

\* self.ip_state.update_last_check()
ForceLastCheck(t) ==
    /\ th[t].op = "force" /\ th[t].pc = "f_last_check"
    /\ state' = update_last_check_state
    /\ th' = [th EXCEPT ![t].pc = "f_update",
                        ![t].calls = Append(@, Call("update_last_check", None, NoIp, NoOutcome))]
    /\ UNCHANGED <<hosts, history, clock, dns, schedVars, req, lap>>

\* success, error_message = self.dns_updater.update_ip(host, ip)
ForceUpdate(t) ==
    /\ th[t].op = "force" /\ th[t].pc = "f_update"
    /\ \E out \in UpdaterOutcomes :
          /\ th' = [th EXCEPT ![t].res = out,
                              ![t].pc = IF out.raised THEN "f_except" ELSE "f_status",
                              ![t].calls = Append(@, Call("update_ip", th[t].arg, th[t].ip, out))]
          /\ dns' = Bound(th[t].arg, th[t].ip, out)
    /\ UNCHANGED <<hosts, state, history, clock, schedVars, req, lap>>

\* ForceStatus that writes the outcome to every host row
ForceStatusAllHosts(t) ==
    /\ th[t].op = "force" /\ th[t].pc = "f_status"
    /\ HistoryRoom
    /\ hosts' = [n \in 1..Len(hosts) |->
                    [hosts[n] EXCEPT !.last_update = clock,
                                     !.last_status = IF th[t].res.ok THEN "True" ELSE "False",
                                     !.last_error = th[t].res.err]]
    /\ history' = update_host_status_history(th[t].arg, th[t].res.ok, th[t].res.err)
    /\ th' = [th EXCEPT ![t].pc = "done",
                        ![t].ret = IF th[t].res.ok THEN "True" ELSE "False",
                        ![t].msg = IF th[t].res.ok THEN "updated successfully" ELSE th[t].res.err,
                        ![t].calls = Append(@, Call("update_host_status", th[t].arg, NoIp,
                                                    [raised |-> FALSE, ok |-> th[t].res.ok,
                                                     err |-> th[t].res.err]))]
    /\ UNCHANGED <<state, clock, dns, schedVars, req, lap>>

\* self.hosts_repo.update_host_status(hostname, success, error_message) and
\* the return of (True, ...) or (False, error_message or "Unknown error")
ForceStatus(t) ==
    /\ th[t].op = "force" /\ th[t].pc = "f_status"
    /\ LET success == th[t].res.ok
           error == th[t].res.err
       IN  /\ HostExists(th[t].arg) => HistoryRoom
           /\ hosts' = update_host_status_hosts(th[t].arg, success, error)
           /\ history' = update_host_status_history(th[t].arg, success, error)
           /\ th' = [th EXCEPT ![t].pc = "done",
                               ![t].ret = IF success THEN "True" ELSE "False",
                               ![t].msg = IF success THEN "updated successfully"
                                          ELSE IF error # None THEN error ELSE "Unknown error",
                               ![t].calls = Append(@, Call("update_host_status", th[t].arg, NoIp,
                                                           [raised |-> FALSE, ok |-> success,
                                                            err |-> error]))]
    /\ UNCHANGED <<state, clock, dns, schedVars, req, lap>>

\* ForceExcept that lets the exception go on to the caller
ForceExceptReraise(t) ==
    /\ th[t].op = "force" /\ th[t].pc = "f_except"
    /\ th' = [th EXCEPT ![t].pc = "done", ![t].ret = "RuntimeError", ![t].msg = th[t].res.err]
    /\ UNCHANGED <<hosts, state, history, clock, dns, schedVars, req, lap>>

\* except Exception as e: self.hosts_repo.update_host_status(hostname, False,
\* str(e)); return False, str(e)
ForceExcept(t) ==
    /\ th[t].op = "force" /\ th[t].pc = "f_except"
    /\ HostExists(th[t].arg) => HistoryRoom
    /\ hosts' = update_host_status_hosts(th[t].arg, FALSE, th[t].res.err)
    /\ history' = update_host_status_history(th[t].arg, FALSE, th[t].res.err)
    /\ th' = [th EXCEPT ![t].pc = "done", ![t].ret = "False", ![t].msg = th[t].res.err,
                        ![t].calls = Append(@, Call("update_host_status", th[t].arg, NoIp,
                                                    [raised |-> FALSE, ok |-> FALSE,
                                                     err |-> th[t].res.err]))]
    /\ UNCHANGED <<state, clock, dns, schedVars, req, lap>>

\* force_update_host returns (success, message) to its caller
ForceReturn(t) ==
    /\ th[t].op = "force" /\ th[t].pc = "done"
    /\ th' = [th EXCEPT ![t] = Idle]
    /\ UNCHANGED <<hosts, state, history, clock, dns, schedVars, req, lap>>

ForceStep(t) ==
    \/ ForceLookup(t)
    \/ ForceGetIp(t)
    \/ ForceDiscover(t)
    \/ ForceSetIp(t)
    \/ ForceLastCheck(t)
    \/ ForceUpdate(t)
    \/ ForceStatus(t)
    \/ ForceExcept(t)
    \/ ForceReturn(t)

\* ------------------------------------------------------- specification

\* Controller invocations one at a time: the scheduler's periodic cycle
\* (main.py run), the API's trigger (status.py trigger_update) and its
\* single-host trigger (status.py trigger_host_update), with host
\* administration between invocations.
Next ==
    \/ \E hostname \in HostNames : Quiescent /\ create_host(hostname)
    \/ \E hostname \in HostNames : Quiescent /\ delete_host(hostname)
    \/ \E t \in Threads : Quiescent /\ HandlerStart(t)
    \/ \E hostname \in HostNames : Quiescent /\ ForceStart("api", hostname)
    \/ \E t \in Threads : HandlerStep(t)
    \/ \E t \in Threads : ForceStep(t)

Spec == Init /\ [][Next]_vars

\* ------------------------------------------------------------ properties

\* the invocation of thread t has made all its port calls and is about to return
Done(t, op) == th[t].op = op /\ th[t].pc = "done"

\* the calls the invocation of thread t made on one port, in call order
CallsTo(t, port) == SelectSeq(th[t].calls, LAMBDA c : c.port = port)

\* the ports the invocation of thread t called, in call order
PortsOf(t) == [n \in 1..Len(th[t].calls) |-> th[t].calls[n].port]

\* the hostnames the invocation of thread t passed to the DNS updater, in call order
Updated(t) == [n \in 1..Len(CallsTo(t, "update_ip")) |-> CallsTo(t, "update_ip")[n].host]

\* the row of hostname h in a hosts table hs
RowOf(hs, h) == hs[CHOOSE n \in 1..Len(hs) : hs[n].hostname = h]

InTable(hs, h) == \E n \in 1..Len(hs) : hs[n].hostname = h

\* sequence a is an initial part of sequence b
IsPrefix(a, b) == Len(a) <= Len(b) /\ \A n \in 1..Len(a) : a[n] = b[n]

\* the handler invocation of thread t discovered an IP
Discovered(t) ==
    /\ th[t].op = "handler"
    /\ Len(th[t].calls) >= 1
    /\ ~th[t].calls[1].res.raised

\* a handler cycle whose discovered IP differs from / equals the IP stored
\* when the cycle began
ChangedCycle(t) == Discovered(t) /\ th[t].ip # StoredIp(th[t].pre.state)
UnchangedCycle(t) == Discovered(t) /\ th[t].ip = StoredIp(th[t].pre.state)

\* C1: a handler cycle that discovers an IP B different from the stored IP
\* (another address, or none yet) calls the DNS updater exactly once per
\* configured host, whatever the host's prior status, each call with IP B,
\* and leaves B as the stored IP.
C1_FullReconciliationOnChange ==
    \A t \in Threads :
        ChangedCycle(t) =>
            /\ IsPrefix(Updated(t), NamesOf(th[t].pre.hosts))
            /\ \A n \in 1..Len(CallsTo(t, "update_ip")) :
                   CallsTo(t, "update_ip")[n].ip = th[t].ip
            /\ Done(t, "handler") =>
                   /\ Updated(t) = NamesOf(th[t].pre.hosts)
                   /\ StoredIp(state) = th[t].ip

\* C1 witness: the IP changed from one address to another while a host
\* already had status success, and that host was pushed again.
C1_Witness ==
    \E t \in Threads :
        /\ Done(t, "handler") /\ ChangedCycle(t)
        /\ StoredIp(th[t].pre.state) # NoIp
        /\ \E n \in 1..Len(th[t].pre.hosts) : th[t].pre.hosts[n].last_status = "True"
        /\ Len(CallsTo(t, "update_ip")) = Len(th[t].pre.hosts)

\* C2: a handler cycle whose discovered IP equals the stored IP while every
\* configured host has status success makes no DNS updater call and changes
\* no host row and not the stored IP; so does any number of such cycles in a
\* row, each starting in the state the previous one left.
C2_Idempotence ==
    \A t \in Threads :
        (/\ Done(t, "handler") /\ UnchangedCycle(t)
         /\ \A n \in 1..Len(th[t].pre.hosts) : th[t].pre.hosts[n].last_status = "True") =>
            /\ CallsTo(t, "update_ip") = <<>>
            /\ hosts = th[t].pre.hosts
            /\ state.current_ip = th[t].pre.state.current_ip
            /\ history = th[t].pre.history

\* C2 witness: such a cycle with two hosts, both in status success, that
\* follows an earlier check made with the same stored IP.
C2_Witness ==
    \E t \in Threads :
        /\ Done(t, "handler") /\ UnchangedCycle(t)
        /\ Len(th[t].pre.hosts) = 2
        /\ \A n \in 1..Len(th[t].pre.hosts) : th[t].pre.hosts[n].last_status = "True"
        /\ th[t].pre.state.last_check # NoTime
        /\ CallsTo(t, "update_ip") = <<>>

\* C3: a handler cycle whose discovered IP equals the stored IP calls the DNS
\* updater exactly once for each host of the pending set and for no other
\* host, each call with the current IP.
C3_RetryOnlyPending ==
    \A t \in Threads :
        UnchangedCycle(t) =>
            /\ IsPrefix(Updated(t), PendingOf(th[t].pre.hosts))
            /\ \A n \in 1..Len(CallsTo(t, "update_ip")) :
                   CallsTo(t, "update_ip")[n].ip = StoredIp(state)
            /\ Done(t, "handler") =>
                   /\ Updated(t) = PendingOf(th[t].pre.hosts)
                   /\ Updated(t) = th[t].sel

\* C3 witness: two hosts, one in status success and one pending, and the
\* cycle made one call, which failed again and was not repeated.
C3_Witness ==
    \E t \in Threads :
        /\ Done(t, "handler") /\ UnchangedCycle(t)
        /\ Len(th[t].pre.hosts) = 2
        /\ Len(PendingOf(th[t].pre.hosts)) = 1
        /\ Len(CallsTo(t, "update_ip")) = 1
        /\ ~CallsTo(t, "update_ip")[1].res.ok

\* C4: a reconciliation calls the updater for every host of its list, and
\* for each host the updater answered with a (success, error) pair it
\* persists exactly that status and that error; the cycle returns normally
\* whichever hosts failed.
C4_PartialFailureIsolation ==
    \A t \in Threads :
        (Done(t, "handler") /\ Discovered(t)) =>
            /\ th[t].ret = "ok"
            /\ Updated(t) = th[t].sel
            /\ \A n \in 1..Len(CallsTo(t, "update_ip")) :
                   LET c == CallsTo(t, "update_ip")[n]
                   IN  ~c.res.raised =>
                          /\ InTable(hosts, c.host)
                          /\ RowOf(hosts, c.host).last_status = (IF c.res.ok THEN "True" ELSE "False")
                          /\ RowOf(hosts, c.host).last_error = c.res.err
                          /\ RowOf(hosts, c.host).last_update = clock

\* C4 witness: the first of two hosts failed with error X, the second was
\* still updated, and both outcomes are in the table.
C4_Witness ==
    \E t \in Threads :
        /\ Done(t, "handler")
        /\ Len(CallsTo(t, "update_ip")) = 2
        /\ CallsTo(t, "update_ip")[1].res = [raised |-> FALSE, ok |-> FALSE, err |-> "X"]
        /\ CallsTo(t, "update_ip")[2].res.ok
        /\ hosts[1].last_status = "False" /\ hosts[1].last_error = "X"
        /\ hosts[2].last_status = "True" /\ hosts[2].last_error = None

\* C5: when the IP provider raises, handler raises RuntimeError("DynDNS
\* update failed"), makes no other port call, and the hosts, the stored IP,
\* last_check and the history are what they were when the cycle began.
C5_DiscoveryFailureAborts ==
    \A t \in Threads :
        (/\ th[t].op = "handler"
         /\ Len(th[t].calls) >= 1
         /\ th[t].calls[1].res.raised) =>
            /\ th[t].pc = "done"
            /\ th[t].ret = "RuntimeError"
            /\ th[t].msg = "DynDNS update failed"
            /\ Len(th[t].calls) = 1
            /\ hosts = th[t].pre.hosts
            /\ state = th[t].pre.state
            /\ history = th[t].pre.history

\* C5 witness: the discovery failed in a cycle that began with a pending
\* host and an earlier check on record.
C5_Witness ==
    \E t \in Threads :
        /\ Done(t, "handler")
        /\ th[t].ret = "RuntimeError"
        /\ PendingOf(hosts) # <<>>
        /\ state.last_check # NoTime
        /\ state.last_check < clock

\* the calls the invocation of thread t made to the DNS updater for hostname h
AttemptsOn(t, h) == SelectSeq(th[t].calls, LAMBDA c : c.port = "update_ip" /\ c.host = h)

IsPending(hs, h) == \E n \in 1..Len(PendingOf(hs)) : PendingOf(hs)[n] = h

\* C6: in every handler cycle with unchanged IP a host whose last attempt
\* failed is attempted once; it is still pending after the cycle when that
\* attempt failed and has left the pending set when it succeeded; a host in
\* status success is not attempted and stays out of the pending set.
C6_PendingUntilSuccess ==
    \A t \in Threads :
        (Done(t, "handler") /\ UnchangedCycle(t)) =>
            \A n \in 1..Len(th[t].pre.hosts) :
                LET r == th[t].pre.hosts[n]
                    att == AttemptsOn(t, r.hostname)
                IN  /\ r.last_status = "False" =>
                          /\ Len(att) = 1
                          /\ IsPending(hosts, r.hostname) = ~att[1].res.ok
                    /\ r.last_status = "True" =>
                          /\ att = <<>>
                          /\ ~IsPending(hosts, r.hostname)

\* C6 witness: a host that failed in an earlier cycle is retried with the
\* IP unchanged, the retry succeeds and the host is no longer pending.
C6_Witness ==
    \E t \in Threads :
        /\ Done(t, "handler") /\ UnchangedCycle(t)
        /\ Len(th[t].pre.hosts) >= 1
        /\ th[t].pre.hosts[1].last_status = "False"
        /\ Len(AttemptsOn(t, th[t].pre.hosts[1].hostname)) = 1
        /\ hosts[1].last_status = "True"
        /\ PendingOf(hosts) = <<>>

\* C7: force_update_host for an existing host while no IP is stored calls,
\* in this order, the IP provider, set_ip with the discovered IP,
\* update_last_check, the DNS updater for that host with that IP and
\* update_host_status for that host with the outcome.
C7_ForceWithoutStoredIp ==
    \A t \in Threads :
        (/\ Done(t, "force")
         /\ InTable(th[t].pre.hosts, th[t].arg)
         /\ StoredIp(th[t].pre.state) = NoIp
         /\ th[t].ip # NoIp) =>
            /\ PortsOf(t) = <<"get_host_by_hostname", "get_ip", "get_public_ip", "set_ip",
                              "update_last_check", "update_ip", "update_host_status">>
            /\ th[t].calls[3].ip = th[t].ip
            /\ th[t].calls[4].ip = th[t].ip
            /\ th[t].calls[6].ip = th[t].ip
            /\ th[t].calls[6].host = th[t].arg
            /\ th[t].calls[7].host = th[t].arg
            /\ th[t].calls[7].res.ok = th[t].calls[6].res.ok
            /\ StoredIp(state) = th[t].ip
            /\ state.last_check = clock
            /\ RowOf(hosts, th[t].arg).last_status =
                  (IF th[t].calls[6].res.ok THEN "True" ELSE "False")

\* C7 witness: a forced update of a never-updated host with no IP stored
\* that discovered an IP and updated the host.
C7_Witness ==
    \E t \in Threads :
        /\ Done(t, "force")
        /\ StoredIp(th[t].pre.state) = NoIp
        /\ th[t].ret = "True"
        /\ StoredIp(state) = th[t].ip
        /\ RowOf(hosts, th[t].arg).last_status = "True"

\* C8: force_update_host for a hostname that is not configured returns a
\* failure and calls no port but the lookup: the hosts, the stored IP,
\* last_check and the history stay as they were.
C8_ForceUnknownHost ==
    \A t \in Threads :
        (Done(t, "force") /\ ~InTable(th[t].pre.hosts, th[t].arg)) =>
            /\ th[t].ret = "False"
            /\ PortsOf(t) = <<"get_host_by_hostname">>
            /\ hosts = th[t].pre.hosts
            /\ state = th[t].pre.state
            /\ history = th[t].pre.history

\* C8 witness: a forced update of an unknown hostname while another host is
\* configured and pending and no IP is stored.
C8_Witness ==
    \E t \in Threads :
        /\ Done(t, "force")
        /\ ~InTable(hosts, th[t].arg)
        /\ PendingOf(hosts) # <<>>
        /\ StoredIp(state) = NoIp

\* C9 as claimed: every handler cycle updates last_check.
C9_LastCheckEveryCycle ==
    \A t \in Threads :
        Done(t, "handler") => state.last_check = clock

\* C9 as amended: every handler cycle whose discovery succeeds calls
\* update_last_check and leaves last_check at the time of the cycle, whether
\* the discovered IP equals the stored one or not.
C9_LastCheckAfterDiscovery ==
    \A t \in Threads :
        (Done(t, "handler") /\ Discovered(t)) =>
            /\ Len(CallsTo(t, "update_last_check")) = 1
            /\ state.last_check = clock

\* C9 witness: a cycle with the IP unchanged and nothing pending moved
\* last_check on from an earlier check.
C9_Witness ==
    \E t \in Threads :
        /\ Done(t, "handler") /\ UnchangedCycle(t)
        /\ CallsTo(t, "update_ip") = <<>>
        /\ th[t].pre.state.last_check # NoTime
        /\ th[t].pre.state.last_check < clock
        /\ state.last_check = clock

\* C10: an invocation of handler or force_update_host calls set_ip only
\* with an IP it has just discovered and that differs from the IP stored
\* when it began; an invocation that discovers the stored IP, or discovers
\* nothing, makes no set_ip call and leaves the stored IP as it was.
C10_SetIpOnlyOnChange ==
    \A t \in Threads :
        th[t].op \in {"handler", "force"} =>
            LET disc == CallsTo(t, "get_public_ip")
                fresh == disc # <<>> /\ ~disc[1].res.raised
                          /\ disc[1].ip # StoredIp(th[t].pre.state)
            IN  /\ Len(CallsTo(t, "set_ip")) <= 1
                /\ \A n \in 1..Len(CallsTo(t, "set_ip")) :
                       fresh /\ CallsTo(t, "set_ip")[n].ip = disc[1].ip
                /\ ~fresh => state.current_ip = th[t].pre.state.current_ip

\* C10 witness: a forced update with an IP already stored ran to its end
\* without a discovery, and the stored IP is the one it began with.
C10_Witness ==
    \E t \in Threads :
        /\ Done(t, "force")
        /\ StoredIp(th[t].pre.state) # NoIp
        /\ CallsTo(t, "get_public_ip") = <<>>
        /\ Len(CallsTo(t, "update_ip")) = 1
        /\ state.current_ip = th[t].pre.state.current_ip

\* ============================================================ OVH client
\* infrastructure/clients/ovh_client.py.  A Python str is a sequence of
\* one-character strings.

Whitespace == {" ", "\n"}

\* str.lower() on one character
lower_char(c) ==
    CASE c = "G" -> "g" [] c = "O" -> "o" [] c = "D" -> "d"
      [] c = "N" -> "n" [] c = "C" -> "c" [] c = "H" -> "h"
      [] OTHER -> c

\* str.lower()
lower(text) == [n \in 1..Len(text) |-> lower_char(text[n])]

RECURSIVE lstrip(_)
lstrip(text) ==
    IF text # <<>> /\ Head(text) \in Whitespace THEN lstrip(Tail(text)) ELSE text

RECURSIVE rstrip(_)
rstrip(text) ==
    IF text # <<>> /\ text[Len(text)] \in Whitespace
    THEN rstrip(SubSeq(text, 1, Len(text) - 1))
    ELSE text

\* str.strip()
strip(text) == rstrip(lstrip(text))

\* str.startswith(prefix)
startswith(text, prefix) ==
    Len(text) >= Len(prefix) /\ SubSeq(text, 1, Len(prefix)) = prefix

\* the characters of text up to its first whitespace
RECURSIVE UpToWhitespace(_)
UpToWhitespace(text) ==
    IF text = <<>> \/ Head(text) \in Whitespace
    THEN <<>>
    ELSE <<Head(text)>> \o UpToWhitespace(Tail(text))

\* str.split()[0] of a text that holds a word
first_word(text) == UpToWhitespace(lstrip(text))

\* the OVH DynHost response codes
good == <<"g", "o", "o", "d">>
nochg == <<"n", "o", "c", "h", "g">>
nohost == <<"n", "o", "h", "o", "s", "t">>
badauth == <<"b", "a", "d", "a", "u", "t", "h">>
notfqdn == <<"n", "o", "t", "f", "q", "d", "n">>
abuse == <<"a", "b", "u", "s", "e">>
code911 == <<"9", "1", "1">>
badagent == <<"b", "a", "d", "a", "g", "e", "n", "t">>
unknown == <<"u", "n", "k", "n", "o", "w", "n">>

RESPONSE_MESSAGES ==
    [code \in {good, nochg, nohost, badauth, notfqdn, abuse, code911, badagent} |->
        CASE code = good -> "IP updated successfully"
          [] code = nochg -> "IP unchanged (already set)"
          [] code = nohost -> "Hostname not found - check DynHost configuration in OVH"
          [] code = badauth -> "Authentication failed - check username/password"
          [] code = notfqdn -> "Invalid hostname format"
          [] code = abuse -> "Too many requests - try again later"
          [] code = code911 -> "OVH service error - try again later"
          [] code = badagent -> "Invalid request"]

\* an error message: a fixed part, and the status code and the text that
\* the f-strings of the client put after it
Message(prefix, code, text) == [prefix |-> prefix, code |-> code, text |-> text]

NoMessage == Message("", 0, <<>>)

\* the (success, error_message) pair update_ip returns, or the exception it raises
Returned(ok, error) == [raised |-> FALSE, exc |-> None, ok |-> ok, error |-> error]
Raised(exc) == [raised |-> TRUE, exc |-> exc, ok |-> FALSE, error |-> NoMessage]

\* OvhClient._parse_response
parse_response(response_text) ==
    LET text == lower(strip(response_text))
    IN  IF startswith(text, good) \/ startswith(text, nochg)
        THEN Returned(TRUE, NoMessage)
        ELSE LET error_code == IF text # <<>> THEN first_word(text) ELSE unknown
             IN  Returned(FALSE,
                          IF error_code \in DOMAIN RESPONSE_MESSAGES
                          THEN Message(RESPONSE_MESSAGES[error_code], 0, <<>>)
                          ELSE Message("Unknown error: ", 0, text))

\* what requests.get can do: answer with a response, or raise
RequestExceptions == {"ConnectionError", "Timeout", "TooManyRedirects", "RequestException"}
OtherExceptions == {"UnicodeError"}

\* the exception classes and their base class
BaseOf(exc) ==
    CASE exc \in {"ConnectionError", "Timeout", "TooManyRedirects"} -> "RequestException"
      [] exc = "RequestException" -> "IOError"
      [] exc = "UnicodeError" -> "ValueError"
      [] exc \in {"IOError", "ValueError"} -> "Exception"
      [] OTHER -> "BaseException"

\* isinstance(e, cls) for an exception e of class exc
RECURSIVE IsInstance(_, _)
IsInstance(exc, cls) ==
    \/ exc = cls
    \/ exc # "BaseException" /\ IsInstance(BaseOf(exc), cls)

\* status codes a response can carry, with response.reason
StatusCodes == {200, 204, 300, 304, 400, 401, 404, 500, 503}

ReasonOf(status) ==
    CASE status = 200 -> "OK"
      [] status = 204 -> "No Content"
      [] status = 300 -> "Multiple Choices"
      [] status = 304 -> "Not Modified"
      [] status = 400 -> "Bad Request"
      [] status = 401 -> "Unauthorized"
      [] status = 404 -> "Not Found"
      [] status = 500 -> "Internal Server Error"
      [] status = 503 -> "Service Unavailable"

\* requests.Response.ok: raise_for_status() raises for 400 <= status < 600
response_ok(status) == ~(400 <= status /\ status < 600)

\* response bodies: optional leading whitespace, a word, optional characters
\* glued to the word, an optional rest
Leads == {<<>>, <<" ">>, <<"\n">>}
Words ==
    {good, nochg, nohost, badauth, notfqdn, abuse, code911, badagent, unknown,
     <<>>, <<"G", "O", "O", "D">>, <<"N", "o", "C", "H", "g">>, <<"g", "o">>,
     <<"o", "k">>}
Glues == {<<>>, <<"x">>, <<"1">>}
Rests == {<<>>, <<" ", "1">>, <<"\n">>, <<" ", "g", "o", "o", "d">>}
Bodies == {l \o w \o g \o r : l \in Leads, w \in Words, g \in Glues, r \in Rests}

\* update_ip that catches ConnectionError only
CaughtConnectionErrorOnly == "ConnectionError"

\* except requests.RequestException as e
Caught == "RequestException"

\* OvhClient.update_ip for what the network did
update_ip(net, status, body) ==
    IF net = "response"
    THEN IF ~response_ok(status)
         THEN Returned(FALSE, Message("HTTP ", status, <<ReasonOf(status)>>))
         ELSE parse_response(body)
    ELSE IF IsInstance(net, Caught)
         THEN Returned(FALSE, Message("Connection error: ", 0, <<net>>))
         ELSE Raised(net)

\* the timeout argument of requests.get(url, auth=auth): not passed, and
\* the default of requests is to wait without limit
RequestTimeout == None

\* requests.get as its caller sees it, for what the network did: a peer that
\* stays silent ends the call with Timeout when a timeout was given and
\* keeps it waiting otherwise
requests_get(net, timeout) ==
    IF net = "silent"
    THEN IF timeout = None THEN "blocked" ELSE "Timeout"
    ELSE net

\* ------------------------------------------------------ IP discovery
\* IpifyClient.get_public_ip: the text ipify.get_ip() answers with is a
\* sequence of characters; an address is its version and its words (four
\* octets, or eight hextets).

\* str.split(sep)
RECURSIVE Split(_, _)
Split(text, sep) ==
    IF \A n \in 1..Len(text) : text[n] # sep
    THEN <<text>>
    ELSE LET n == CHOOSE n \in 1..Len(text) :
                      text[n] = sep /\ \A m \in 1..(n - 1) : text[m] # sep
         IN  <<SubSeq(text, 1, n - 1)>> \o Split(SubSeq(text, n + 1, Len(text)), sep)

\* int(text, base) for a text of lower-case digits of the base; -1 where
\* int raises ValueError (the empty text, a character that is no digit)
RECURSIVE int_of(_, _)
int_of(text, base) ==
    LET digits == <<"0", "1", "2", "3", "4", "5", "6", "7",
                    "8", "9", "a", "b", "c", "d", "e", "f">>
    IN  IF text = <<>> \/ \E n \in 1..Len(text) : \A d \in 1..base : digits[d] # text[n]
        THEN -1
        ELSE LET last == (CHOOSE d \in 1..base : digits[d] = text[Len(text)]) - 1
             IN  IF Len(text) = 1
                 THEN last
                 ELSE int_of(SubSeq(text, 1, Len(text) - 1), base) * base + last

AddressValueError == [raised |-> TRUE, version |-> 0, words |-> <<>>]

\* ipaddress.IPv4Address(text): exactly four octets, each of one to three
\* decimal digits and at most 255
IPv4Address(text) ==
    LET octets == Split(text, ".")
    IN  IF \/ text = <<>>
           \/ Len(octets) # 4
           \/ \E n \in 1..Len(octets) :
                  \/ int_of(octets[n], 10) = -1
                  \/ Len(octets[n]) > 3
                  \/ int_of(octets[n], 10) > 255
        THEN AddressValueError
        ELSE [raised |-> FALSE, version |-> 4,
              words |-> [n \in 1..4 |-> int_of(octets[n], 10)]]

\* ipaddress.IPv6Address(text): three to nine parts between colons, at most
\* one empty part inside (the "::"), an empty first or last part only next to
\* it, eight parts without it, each other part one to four hex digits
IPv6Address(text) ==
    LET parts == Split(text, ":")
        len == Len(parts)
        skips == {i \in 2..(len - 1) : parts[i] = <<>>}
        skip_index == CHOOSE i \in skips : TRUE
        hi == IF skips = {} THEN len
              ELSE IF parts[1] = <<>> THEN skip_index - 2 ELSE skip_index - 1
        lo == IF skips = {} THEN 0
              ELSE IF parts[len] = <<>> THEN len - skip_index - 1 ELSE len - skip_index
        hextet(i) == IF Len(parts[i]) > 4 THEN -1 ELSE int_of(parts[i], 16)
        malformed ==
            \/ text = <<>>
            \/ len < 3
            \/ len > 9
            \/ Cardinality(skips) > 1
            \/ skips # {} /\ parts[1] = <<>> /\ hi # 0
            \/ skips # {} /\ parts[len] = <<>> /\ lo # 0
            \/ skips # {} /\ 8 - (hi + lo) < 1
            \/ skips = {} /\ (len # 8 \/ parts[1] = <<>> \/ parts[len] = <<>>)
    IN  IF malformed
        THEN AddressValueError
        ELSE IF \E i \in (1..hi) \cup ((len - lo + 1)..len) : hextet(i) = -1
        THEN AddressValueError
        ELSE [raised |-> FALSE, version |-> 6,
              words |-> [n \in 1..8 |->
                            IF n <= hi THEN hextet(n)
                            ELSE IF n > 8 - lo THEN hextet(len - (8 - n))
                            ELSE 0]]

\* pydantic IPvAnyAddress(text): IPv4Address, then IPv6Address, then an error
IPvAnyAddress(text) ==
    IF ~IPv4Address(text).raised THEN IPv4Address(text) ELSE IPv6Address(text)

\* the address get_public_ip falls back to when it is changed to swallow
\* its failure
get_public_ip_default(net, text) ==
    IF net # "text" \/ IPvAnyAddress(text).raised
    THEN IPv4Address(<<"0", ".", "0", ".", "0", ".", "0">>)
    ELSE IPvAnyAddress(text)

\* IpifyClient.get_public_ip for what ipify.get_ip() did: any exception of
\* the call or of the validation becomes RuntimeError
get_public_ip(net, text) ==
    IF net # "text" \/ IPvAnyAddress(text).raised
    THEN Raised("RuntimeError")
    ELSE IPvAnyAddress(text)

\* what ipify.get_ip() can do: raise, or answer with a text. The texts are
\* three to five dot-separated fields, and texts with colons; no text has
\* an octet with a leading zero or both dots and colons.
IpifyExceptions == {"ipify.ConnectionError", "ipify.ServiceError", "ipify.IpifyException"}
DiscoveryTexts ==
    LET fields == {<<"1">>, <<"2", "5", "5">>, <<"2", "5", "6">>, <<>>, <<"x">>}
        dot == <<".">>
    IN  {a \o dot \o b \o dot \o c : a, b, c \in fields}
        \cup {a \o dot \o b \o dot \o c \o dot \o d : a, b, c, d \in fields}
        \cup {a \o dot \o b \o dot \o c \o dot \o d \o dot \o e : a, b, c, d, e \in fields}
        \cup
        {<<":", ":">>,
         <<":", ":", "1">>,
         <<"1", ":", ":">>,
         <<"2", "0", "0", "1", ":", "d", "b", "8", ":", ":", "1">>,
         <<"1", ":", "2", ":", "3", ":", "4", ":", "5", ":", "6", ":", "7", ":", "8">>,
         <<"1", ":", "2", ":", "3", ":", "4", ":", "5", ":", "6", ":", "7", ":", ":">>,
         <<"f", "f", "f", "f", ":", ":", "f", "f", "f", "f">>,
         <<":", ":", ":">>,
         <<"1", ":", "2", ":", "3", ":", "4", ":", "5", ":", "6", ":", "7">>,
         <<"1", ":", ":", "2", ":", ":", "3">>,
         <<"1", "2", "3", "4", "5", ":", ":">>,
         <<"g", ":", ":", "1">>,
         <<":", "1", ":", ":">>,
         <<"1", ":", "2", ":", "3", ":", "4", ":", "5", ":", "6", ":", "7", ":", "8", ":", "9">>,
         <<"1", ":", "2", ":", "3", ":", "4", ":", "5", ":", "6", ":", "7", ":", "8", ":", ":">>,
         <<":">>,
         <<"1", ":">>,
         <<>>,
         <<"1", ".", "1", ".", "1", ".", "1", "\n">>,
         <<":", ":", "1", ":">>,
         <<"1", ":", "2", ":", "3", ":", "4", ":", "5", ":", "6", ":", "7", ":">>}

\* the calls of update_ip and of get_public_ip: every behaviour of the
\* network and of the discovery library
InitClient ==
    /\ hosts = <<>> /\ state = NoState /\ history = <<>> /\ clock = 0
    /\ th = [t \in Threads |-> Idle]
    /\ dns = [h \in HostNames |-> NoIp]
    /\ settings = DefaultSettings /\ sch = NewScheduler /\ stop = FALSE
    /\ lap = NoLap
    /\ \/ \E status \in StatusCodes, body \in Bodies :
            req = [pc |-> "called", net |-> "response", status |-> status,
                   body |-> body, ret |-> None]
       \/ \E exc \in RequestExceptions \cup OtherExceptions \cup {"silent"} :
            req = [pc |-> "called", net |-> exc, status |-> 0, body |-> <<>>, ret |-> None]
       \/ \E text \in DiscoveryTexts :
            req = [pc |-> "asked", net |-> "text", status |-> 0, body |-> text, ret |-> None]
       \/ \E exc \in IpifyExceptions :
            req = [pc |-> "asked", net |-> exc, status |-> 0, body |-> <<>>, ret |-> None]

\* update_ip runs up to its return, or stays in requests.get when that call
\* does not come back
ClientUpdateIp ==
    /\ req.pc = "called"
    /\ req' = IF requests_get(req.net, RequestTimeout) = "blocked"
              THEN [req EXCEPT !.pc = "blocked"]
              ELSE [req EXCEPT !.pc = "returned",
                               !.ret = update_ip(requests_get(req.net, RequestTimeout),
                                                 req.status, req.body)]
    /\ UNCHANGED <<hosts, state, history, clock, th, dns, schedVars, lap>>

\* get_public_ip runs up to its return or its raise
IpifyGetPublicIp ==
    /\ req.pc = "asked"
    /\ req' = [req EXCEPT !.pc = "answered", !.ret = get_public_ip(req.net, req.body)]
    /\ UNCHANGED <<hosts, state, history, clock, th, dns, schedVars, lap>>

NextClient == ClientUpdateIp \/ IpifyGetPublicIp

SpecClient == InitClient /\ [][NextClient]_vars

\* the response update_ip received was parsed
Parsed == req.pc = "returned" /\ req.net = "response" /\ response_ok(req.status)

\* C11: the parse decides on the first whitespace-delimited word of the
\* trimmed, lower-cased body: success exactly when the word is good or nochg,
\* the fixed message for each of the six error codes, and a failure with an
\* "Unknown error" message for every other body.
C11_FirstWordDecides ==
    Parsed =>
        LET word == first_word(lower(strip(req.body)))
        IN  /\ req.ret.ok = (word \in {good, nochg})
            /\ word \in DOMAIN RESPONSE_MESSAGES \ {good, nochg} =>
                   req.ret.error = Message(RESPONSE_MESSAGES[word], 0, <<>>)
            /\ word \notin DOMAIN RESPONSE_MESSAGES =>
                   /\ ~req.ret.ok
                   /\ req.ret.error.prefix = "Unknown error: "

\* C12: update_ip returns (false, "HTTP <status>: <reason>") for every
\* response whose status is not 2xx, whatever its body, and parses the body
\* of 2xx responses only.
C12_Non2xxIsHttpError ==
    (req.pc = "returned" /\ req.net = "response") =>
        IF req.status \in 200..299
        THEN req.ret = parse_response(req.body)
        ELSE req.ret = Returned(FALSE, Message("HTTP ", req.status, <<ReasonOf(req.status)>>))

\* C13: whatever request exception requests.get raises (connection error,
\* timeout, any other RequestException), update_ip raises nothing and
\* returns (false, "Connection error: <exception>").
C13_TransportErrorReturned ==
    (req.pc = "returned" /\ req.net \in RequestExceptions) =>
        /\ ~req.ret.raised
        /\ req.ret = Returned(FALSE, Message("Connection error: ", 0, <<req.net>>))

\* C13 witness: the request timed out and update_ip returned the failure.
C13_Witness ==
    /\ req.pc = "returned"
    /\ req.net = "Timeout"
    /\ ~req.ret.raised /\ ~req.ret.ok
    /\ req.ret.error.prefix = "Connection error: "

\* ===================================================== repository errors
\* A repository call that raises (the session rolls back, database.py
\* get_db_session): nothing is persisted by that call.

RepositoryError == [raised |-> TRUE, ok |-> FALSE, err |-> "DB"]

\* the repository call handler makes at each position
PortAt(pc) ==
    CASE pc = "last_check" -> "update_last_check"
      [] pc = "compare" -> "get_ip"
      [] pc = "pending" -> "get_pending_hosts"
      [] pc = "set_ip" -> "set_ip"
      [] pc = "get_hosts" -> "get_hosts"

\* update_last_check, get_ip, get_pending_hosts, set_ip or get_hosts raises
\* in handler: except Exception ... raise RuntimeError("DynDNS update failed")
HandlerRepositoryError(t) ==
    /\ th[t].op = "handler"
    /\ th[t].pc \in {"last_check", "compare", "pending", "set_ip", "get_hosts"}
    /\ th' = [th EXCEPT ![t].pc = "done", ![t].ret = "RuntimeError",
                        ![t].msg = "DynDNS update failed",
                        ![t].calls = Append(@, Call(PortAt(th[t].pc), None, NoIp,
                                                    RepositoryError))]
    /\ UNCHANGED <<hosts, state, history, clock, dns, schedVars, req, lap>>

\* update_host_status raises in update_hosts_ip: inside the try, the except
\* clause takes over and calls update_host_status(hostname, False, str(e));
\* inside the except clause, the exception leaves update_hosts_ip and handler
\* raises RuntimeError
UpdateStatusError(t) ==
    /\ th[t].op = "handler" /\ th[t].pc = "status"
    /\ th' = IF th[t].res.raised
             THEN [th EXCEPT ![t].pc = "done", ![t].ret = "RuntimeError",
                             ![t].msg = "DynDNS update failed",
                             ![t].calls = Append(@, Call("update_host_status",
                                                         th[t].sel[th[t].i], NoIp,
                                                         RepositoryError))]
             ELSE [th EXCEPT ![t].res = RepositoryError,
                             ![t].calls = Append(@, Call("update_host_status",
                                                         th[t].sel[th[t].i], NoIp,
                                                         RepositoryError))]
    /\ UNCHANGED <<hosts, state, history, clock, dns, schedVars, req, lap>>

\* Controller invocations one at a time, with repository calls that may raise.
NextFault ==
    \/ Next
    \/ \E t \in Threads : HandlerRepositoryError(t)
    \/ \E t \in Threads : UpdateStatusError(t)

SpecFault == Init /\ [][NextFault]_vars

\* the hosts recorded as success are bound at the provider to the stored IP
SuccessBoundToStored ==
    \A n \in 1..Len(hosts) :
        hosts[n].last_status = "True" => dns[hosts[n].hostname] = StoredIp(state)

\* C19: after any sequence of handler cycles, aborted ones included, every
\* host whose status is success had its last accepted DNS update made with
\* the IP that is stored now.
C19_SuccessMeansCurrentIp == Quiescent => SuccessBoundToStored

\* ============================================================= scheduler
\* main.py SchedulerThread and the settings it reads.  pc is the position in
\* run(); interval, self_interval (self._interval) and slept (the iterations
\* done of `for _ in range(interval)`) are its variables; changed says that
\* the last settings read replaced an earlier self._interval by another
\* value; caught says that the except clause logged a RuntimeError;
\* late_cycles and late_slices count the handler calls and the sleep slices
\* begun while the stop event was set.

\* SqliteRepository.get_settings
get_settings ==
    IF settings.exists
    THEN [update_interval |-> settings.update_interval]
    ELSE [update_interval |-> DefaultInterval]

\* SqliteRepository.update_settings(update_interval), called by the
\* settings API while the scheduler runs
update_settings(update_interval) ==
    /\ HistoryRoom
    /\ settings' = [exists |-> TRUE, update_interval |-> update_interval]
    /\ history' = Append(history, HistoryRow(None, "settings_updated", None, update_interval))
    /\ UNCHANGED <<hosts, state, clock, th, dns, sch, stop, req, lap>>

\* scheduler.start()
SchedulerStart ==
    /\ sch.pc = "new"
    /\ sch' = [sch EXCEPT !.pc = "head"]
    /\ UNCHANGED <<hosts, state, history, clock, th, dns, settings, stop, req, lap>>

\* SchedulerThread.stop(), called from another thread
SchedulerStop ==
    /\ ~stop
    /\ stop' = TRUE
    /\ UNCHANGED <<hosts, state, history, clock, th, dns, settings, sch, req, lap>>

\* while not self._stop_event.is_set()
SchedulerHead ==
    /\ sch.pc = "head"
    /\ sch' = [sch EXCEPT !.pc = IF stop THEN "exit" ELSE "settings"]
    /\ UNCHANGED <<hosts, state, history, clock, th, dns, settings, stop, req, lap>>

\* SchedulerSettings that keeps the interval it read in its first iteration
SchedulerSettingsReadOnce ==
    /\ sch.pc = "settings"
    /\ sch' = [sch EXCEPT !.pc = "call",
                          !.interval = IF sch.self_interval = 0
                                       THEN get_settings.update_interval
                                       ELSE sch.self_interval,
                          !.self_interval = IF sch.self_interval = 0
                                            THEN get_settings.update_interval
                                            ELSE sch.self_interval,
                          !.changed = FALSE]
    /\ UNCHANGED <<hosts, state, history, clock, th, dns, settings, stop, req, lap>>

\* settings = self.repository.get_settings(); interval =
\* settings.get("update_interval", 300); if self._interval != interval:
\* self._interval = interval
SchedulerSettings ==
    /\ sch.pc = "settings"
    /\ sch' = [sch EXCEPT !.pc = "call",
                          !.interval = get_settings.update_interval,
                          !.self_interval = get_settings.update_interval,
                          !.changed = sch.self_interval # 0
                                      /\ sch.self_interval # get_settings.update_interval]
    /\ UNCHANGED <<hosts, state, history, clock, th, dns, settings, stop, req, lap>>

\* self.controller.handler() entered
SchedulerCall ==
    /\ sch.pc = "call"
    /\ HandlerBegin("scheduler")
    /\ sch' = [sch EXCEPT !.pc = "running",
                          !.late_cycles = IF stop THEN @ + 1 ELSE @]
    /\ UNCHANGED <<hosts, state, history, dns, settings, stop, req, lap>>

\* SchedulerReturn without the except clause: the RuntimeError ends run()
SchedulerReturnUncaught ==
    /\ sch.pc = "running"
    /\ th["scheduler"].op = "handler" /\ th["scheduler"].pc = "done"
    /\ sch' = IF th["scheduler"].ret = "ok"
              THEN [sch EXCEPT !.pc = "sleep_check", !.slept = 0]
              ELSE [sch EXCEPT !.pc = "dead"]
    /\ th' = [th EXCEPT !["scheduler"] = Idle]
    /\ UNCHANGED <<hosts, state, history, clock, dns, settings, stop, req, lap>>

\* handler() returned, or raised and `except RuntimeError as e` logged it;
\* any other exception ends run()
SchedulerReturn ==
    /\ sch.pc = "running"
    /\ th["scheduler"].op = "handler" /\ th["scheduler"].pc = "done"
    /\ sch' = IF th["scheduler"].ret = "ok"
              THEN [sch EXCEPT !.pc = "sleep_check", !.slept = 0]
              ELSE IF th["scheduler"].ret = "RuntimeError"
                   THEN [sch EXCEPT !.pc = "sleep_check", !.slept = 0, !.caught = TRUE]
                   ELSE [sch EXCEPT !.pc = "dead"]
    /\ th' = [th EXCEPT !["scheduler"] = Idle]
    /\ UNCHANGED <<hosts, state, history, clock, dns, settings, stop, req, lap>>

\* SchedulerSleepCheck that does not look at the stop event
SchedulerSleepCheckNoBreak ==
    /\ sch.pc = "sleep_check"
    /\ sch' = [sch EXCEPT !.pc = IF sch.slept >= sch.interval THEN "head" ELSE "sleeping"]
    /\ UNCHANGED <<hosts, state, history, clock, th, dns, settings, stop, req, lap>>

\* for _ in range(interval): if self._stop_event.is_set(): break
SchedulerSleepCheck ==
    /\ sch.pc = "sleep_check"
    /\ sch' = [sch EXCEPT !.pc = IF sch.slept >= sch.interval \/ stop
                                 THEN "head"
                                 ELSE "sleeping"]
    /\ UNCHANGED <<hosts, state, history, clock, th, dns, settings, stop, req, lap>>

\* time.sleep(1)
SchedulerSleep ==
    /\ sch.pc = "sleeping"
    /\ sch' = [sch EXCEPT !.pc = "sleep_check", !.slept = @ + 1,
                          !.late_slices = IF stop THEN @ + 1 ELSE @]
    /\ UNCHANGED <<hosts, state, history, clock, th, dns, settings, stop, req, lap>>

\* The scheduler thread from start to exit and the handler() calls it makes,
\* while the administration changes the interval and stops the scheduler.
NextSched ==
    \/ \E update_interval \in Intervals \ {settings.update_interval} :
            update_settings(update_interval)
    \/ SchedulerStart
    \/ SchedulerStop
    \/ SchedulerHead
    \/ SchedulerSettings
    \/ SchedulerCall
    \/ HandlerDiscover("scheduler")
    \/ HandlerLastCheck("scheduler")
    \/ HandlerCompare("scheduler")
    \/ HandlerPending("scheduler")
    \/ HandlerSetIp("scheduler")
    \/ HandlerGetHosts("scheduler")
    \/ UpdateCall("scheduler")
    \/ HandlerRepositoryError("scheduler")
    \/ SchedulerReturn
    \/ SchedulerSleepCheck
    \/ SchedulerSleep

SpecSched == Init /\ [][NextSched]_vars

\* the scheduler thread takes a step
SchedulerMoves == sch' # sch

\* the handler() call of the scheduler is about to raise RuntimeError
HandlerRaised ==
    /\ sch.pc = "running"
    /\ th["scheduler"].op = "handler" /\ th["scheduler"].pc = "done"
    /\ th["scheduler"].ret = "RuntimeError"

\* C14: a RuntimeError raised by handler() in the scheduler's cycle (after a
\* discovery failure or a repository failure) is caught: run() goes on to
\* the sleep, from the sleep to the loop test and, unless the stop event is
\* set, through the settings read into the next handler() call; the thread
\* never ends on the error.
C14_HandlerErrorCaught ==
    [][/\ (HandlerRaised /\ SchedulerMoves) => (sch'.pc = "sleep_check" /\ sch'.caught)
       /\ (sch.pc = "sleep_check" /\ SchedulerMoves) => sch'.pc \in {"sleeping", "head"}
       /\ (sch.pc = "sleeping" /\ SchedulerMoves) => sch'.pc = "sleep_check"
       /\ (sch.pc = "head" /\ ~stop /\ SchedulerMoves) => sch'.pc = "settings"
       /\ (sch.pc = "settings" /\ SchedulerMoves) => sch'.pc = "call"
       /\ (sch.pc = "call" /\ SchedulerMoves) =>
              (sch'.pc = "running" /\ th'["scheduler"].op = "handler")
       /\ sch'.pc # "dead"]_vars

\* C14 witness: after a RuntimeError was caught, and with the stop event
\* unset, the scheduler is in a later handler() call.
C14_Witness ==
    /\ sch.caught /\ ~stop
    /\ sch.pc = "running"
    /\ th["scheduler"].op = "handler" /\ th["scheduler"].pc = "compare"

\* C15: every iteration of run() starts with the settings read, the interval
\* it takes is the one persisted at that moment, and the sleep of that
\* iteration lasts that many slices unless the stop event ends it.
C15_IntervalReadEachIteration ==
    [][/\ (sch.pc = "head" /\ SchedulerMoves) => sch'.pc \in {"settings", "exit"}
       /\ (sch.pc = "settings" /\ SchedulerMoves) =>
              sch'.interval = settings.update_interval
       /\ (sch.pc \in {"call", "running", "sleep_check", "sleeping"} /\ SchedulerMoves) =>
              sch'.interval = sch.interval
       /\ (sch.pc = "sleep_check" /\ sch'.pc = "head") =>
              (sch.slept = sch.interval \/ stop)
       /\ sch'.pc \in {"sleep_check", "sleeping"} => sch'.slept <= sch'.interval]_vars

\* C15 witness: the interval was changed while the loop ran, the next
\* iteration read the new value and slept exactly that long.
C15_Witness ==
    /\ sch.changed /\ ~stop
    /\ sch.interval = 1 /\ settings.update_interval = 1
    /\ sch.pc = "sleep_check" /\ sch.slept = sch.interval

\* C16 as claimed: after the stop event is set the scheduler begins no
\* handler() call and at most one sleep slice.
C16_NoCycleAfterStop == sch.late_cycles = 0 /\ sch.late_slices <= 1

\* C16 as amended: after the stop event is set the scheduler begins at most
\* one handler() call or one sleep slice (the step it had already tested the
\* event for), begins nothing once it has tested the event, and leaves the
\* loop at the next loop test.
C16_CooperativeCancellation ==
    /\ [](sch.late_cycles + sch.late_slices <= 1)
    /\ [][/\ (sch.pc = "head" /\ stop /\ SchedulerMoves) => sch'.pc = "exit"
          /\ (sch.pc = "sleep_check" /\ stop /\ SchedulerMoves) => sch'.pc = "head"
          /\ sch.pc = "exit" => ~SchedulerMoves]_vars

\* C16 witness: the stop event was set between the loop test and the
\* handler() call; that cycle ran, no slice was slept and run() returned.
C16_Witness ==
    /\ stop /\ sch.pc = "exit"
    /\ sch.late_cycles = 1 /\ sch.late_slices = 0

\* ================================== administration during an invocation

\* Controller invocations one at a time, while the hosts API deletes hosts
\* at any moment, also between two port calls of a cycle.
NextAdmin ==
    \/ \E hostname \in HostNames : Quiescent /\ create_host(hostname)
    \/ \E hostname \in HostNames : delete_host(hostname)
    \/ \E t \in Threads : Quiescent /\ HandlerStart(t)
    \/ \E hostname \in HostNames : Quiescent /\ ForceStart("api", hostname)
    \/ \E t \in Threads : HandlerStep(t)
    \/ \E t \in Threads : ForceStep(t)

SpecAdmin == Init /\ [][NextAdmin]_vars

\* C17: update_host_status for a hostname that has no row changes no host
\* row and appends no history event and raises nothing: the invocation goes
\* on to its next step, and a cycle one of whose hosts was deleted under it
\* still attempts every host of its list and returns normally.
C17_StatusOfDeletedHostIsNoOp ==
    /\ [](\A t \in Threads :
            (Done(t, "handler") /\ Discovered(t)) =>
                (th[t].ret = "ok" /\ Updated(t) = th[t].sel))
    /\ [][\A t \in Threads :
            /\ (/\ th[t].op = "handler" /\ th[t].pc = "status"
                /\ th'[t] # th[t]
                /\ ~HostExists(th[t].sel[th[t].i])) =>
                   /\ hosts' = hosts /\ history' = history
                   /\ th'[t].pc = "update" /\ th'[t].i = th[t].i + 1
            /\ (/\ th[t].op = "force" /\ th[t].pc \in {"f_status", "f_except"}
                /\ th'[t] # th[t]
                /\ ~HostExists(th[t].arg)) =>
                   /\ hosts' = hosts /\ history' = history
                   /\ th'[t].pc = "done"]_vars

\* C17 witness: a cycle over two hosts whose first host was deleted before
\* its outcome was persisted: the cycle made both update_host_status calls,
\* and all it left in the history is the deletion and the second host's event.
C17_Witness ==
    \E t \in Threads :
        /\ Done(t, "handler") /\ th[t].ret = "ok"
        /\ Len(th[t].sel) = 2
        /\ Len(CallsTo(t, "update_host_status")) = 2
        /\ ~InTable(hosts, th[t].sel[1])
        /\ InTable(hosts, th[t].sel[2])
        /\ RowOf(hosts, th[t].sel[2]).last_update = clock
        /\ Len(history) = Len(th[t].pre.history) + 2
        /\ history[Len(history) - 1].action = "host_deleted"
        /\ history[Len(history) - 1].hostname = th[t].sel[1]
        /\ history[Len(history)].hostname = th[t].sel[2]

\* ------------------------------------------------ overlapping invocations

\* SqliteRepository.set_ip is a SELECT and, at the commit of its session,
\* an UPDATE or an INSERT: statements of another thread's session can run
\* between the two.

IntegrityError == [raised |-> TRUE, ok |-> FALSE, err |-> "IntegrityError"]

\* state = db.query(State).filter(State.id == 1).first() in the set_ip of thread t
SetIpQuery(t, pc, next) ==
    /\ th[t].pc = pc
    /\ th' = [th EXCEPT ![t].row = state, ![t].pc = next]
    /\ UNCHANGED <<hosts, state, history, clock, dns, schedVars, req, lap>>

\* the INSERT of State(id=1) by thread t meets a row that another session
\* has committed since t's SELECT
Conflict(t) == ~th[t].row.exists /\ state.exists

\* the history table after the commit of the set_ip of thread t: old_ip is
\* the value its SELECT saw
SetIpCommitHistory(t) ==
    LET ip_str == IpStr(th[t].ip)
        old_ip == IF th[t].row.exists THEN th[t].row.current_ip ELSE None
    IN  IF old_ip # ip_str
        THEN Append(history, HistoryRow(ip_str, "ip_changed", None, <<old_ip, ip_str>>))
        ELSE history

\* set_ip of the handler: the SELECT
HandlerSetIpQuery(t) == th[t].op = "handler" /\ SetIpQuery(t, "set_ip", "set_ip_commit")

\* set_ip of the handler: the commit; IntegrityError is rolled back by
\* get_db_session and reaches the except clause of handler
HandlerSetIpCommit(t) ==
    /\ th[t].op = "handler" /\ th[t].pc = "set_ip_commit"
    /\ IF Conflict(t)
       THEN /\ th' = [th EXCEPT ![t].pc = "done", ![t].ret = "RuntimeError",
                               ![t].msg = "DynDNS update failed",
                               ![t].row = NoState,
                               ![t].calls = Append(@, Call("set_ip", None, th[t].ip,
                                                           IntegrityError))]
            /\ UNCHANGED <<state, history>>
       ELSE /\ SetIpCommitHistory(t) # history => HistoryRoom
            /\ state' = set_ip_state(th[t].ip)
            /\ history' = SetIpCommitHistory(t)
            /\ th' = [th EXCEPT ![t].pc = "get_hosts", ![t].row = NoState,
                                ![t].calls = Append(@, Call("set_ip", None, th[t].ip, NoOutcome))]
    /\ UNCHANGED <<hosts, clock, dns, schedVars, req, lap>>

\* set_ip of force_update_host: the SELECT
ForceSetIpQuery(t) == th[t].op = "force" /\ SetIpQuery(t, "f_set_ip", "f_set_ip_commit")

\* set_ip of force_update_host: the commit; IntegrityError reaches
\* `except Exception as e` of force_update_host
ForceSetIpCommit(t) ==
    /\ th[t].op = "force" /\ th[t].pc = "f_set_ip_commit"
    /\ IF Conflict(t)
       THEN /\ th' = [th EXCEPT ![t].pc = "f_except", ![t].res = IntegrityError,
                               ![t].row = NoState,
                               ![t].calls = Append(@, Call("set_ip", None, th[t].ip,
                                                           IntegrityError))]
            /\ UNCHANGED <<state, history>>
       ELSE /\ SetIpCommitHistory(t) # history => HistoryRoom
            /\ state' = set_ip_state(th[t].ip)
            /\ history' = SetIpCommitHistory(t)
            /\ th' = [th EXCEPT ![t].pc = "f_last_check", ![t].row = NoState,
                                ![t].calls = Append(@, Call("set_ip", None, th[t].ip, NoOutcome))]
    /\ UNCHANGED <<hosts, clock, dns, schedVars, req, lap>>

\* the hosts configured while invocations overlap
ConcHosts == {"h1"}

\* The scheduler thread runs handler() (main.py run) while the API's event
\* loop runs one of trigger_update and trigger_host_update at a time
\* (status.py: `async def` endpoints that call the controller directly);
\* the hosts are configured before the first invocation.
NextConc ==
    \/ \E hostname \in ConcHosts : clock = 0 /\ create_host(hostname)
    \/ \E t \in Threads : HandlerStart(t)
    \/ \E hostname \in ConcHosts : ForceStart("api", hostname)
    \/ \E t \in Threads : HandlerDiscover(t)
    \/ \E t \in Threads : HandlerLastCheck(t)
    \/ \E t \in Threads : HandlerCompare(t)
    \/ \E t \in Threads : HandlerPending(t)
    \/ \E t \in Threads : HandlerSetIpQuery(t)
    \/ \E t \in Threads : HandlerSetIpCommit(t)
    \/ \E t \in Threads : HandlerGetHosts(t)
    \/ \E t \in Threads : UpdateCall(t)
    \/ \E t \in Threads : UpdateStatus(t)
    \/ \E t \in Threads : HandlerReturn(t)
    \/ \E t \in Threads : ForceLookup(t)
    \/ \E t \in Threads : ForceGetIp(t)
    \/ \E t \in Threads : ForceDiscover(t)
    \/ \E t \in Threads : ForceSetIpQuery(t)
    \/ \E t \in Threads : ForceSetIpCommit(t)
    \/ \E t \in Threads : ForceLastCheck(t)
    \/ \E t \in Threads : ForceUpdate(t)
    \/ \E t \in Threads : ForceStatus(t)
    \/ \E t \in Threads : ForceExcept(t)
    \/ \E t \in Threads : ForceReturn(t)

SpecConc == Init /\ [][NextConc]_vars

\* no repository call of an invocation in progress has raised
NoPersistenceError ==
    \A t \in Threads : \A n \in 1..Len(th[t].calls) :
        th[t].calls[n].port \in {"set_ip", "update_host_status", "update_last_check"}
            => ~th[t].calls[n].res.raised

\* the host that the invocation of thread t is reconciling
Target(t) == IF th[t].op = "force" THEN th[t].arg ELSE th[t].sel[th[t].i]

\* thread t persists the outcome it holds for its target in this step
Persists(t) ==
    /\ th[t].pc \in {"status", "f_status", "f_except"}
    /\ th'[t] # th[t]

\* C18: two overlapping invocations (the scheduled cycle and a manual
\* trigger) both complete without a persistence error; the stored IP changes
\* only to the value a set_ip writes, so that the single State row holds the
\* value of the last set_ip; and a host row changes only when an invocation
\* persists the outcome of its attempt for that host, to that outcome.
C18_OverlapKeepsRecordsSound ==
    /\ [](NoPersistenceError)
    /\ [][/\ state'.current_ip # state.current_ip =>
                \E t \in Threads :
                    /\ th[t].pc \in {"set_ip", "f_set_ip", "set_ip_commit", "f_set_ip_commit"}
                    /\ th'[t] # th[t]
                    /\ state'.current_ip = IpStr(th[t].ip)
          /\ \A n \in 1..Len(hosts) :
                (Len(hosts') = Len(hosts) /\ hosts'[n] # hosts[n]) =>
                    \E t \in Threads :
                        /\ Persists(t)
                        /\ hosts[n].hostname = Target(t)
                        /\ hosts'[n].last_status =
                              (IF ~th[t].res.raised /\ th[t].res.ok THEN "True" ELSE "False")]_vars

\* thread t has made every port call of a cycle that began when no other
\* invocation was in progress, the first cycle to begin after the two of
\* lap, and nothing has begun since
FurtherCycle(t) ==
    /\ Done(t, "handler")
    /\ th[t].ret = "ok"
    /\ lap.at > 0
    /\ th[t].began = lap.at + 1
    /\ clock = th[t].began
    /\ \A u \in Threads \ {t} : Free(u)

\* C20: two invocations overlapped and discovered different IPs, b and then
\* c; once both have completed and one further cycle has run that discovered
\* c again, every host whose status is success is bound to c at the provider.
C20_OverlapConvergesToLatestIp ==
    \A t \in Threads :
        (FurtherCycle(t) /\ lap.b # lap.c /\ th[t].ip = lap.c) =>
            \A n \in 1..Len(hosts) :
                hosts[n].last_status = "True" => dns[hosts[n].hostname] = lap.c

\* ===================================== order of the port calls of a cycle

\* the port calls that handler makes before the reconciliation, for the
\* stored IP its get_ip call returned
BeforeReconciliation(t) ==
    <<"get_public_ip", "update_last_check", "get_ip">> \o
    (IF Len(th[t].calls) >= 3 /\ th[t].calls[3].ip # th[t].calls[1].ip
     THEN <<"set_ip", "get_hosts">>
     ELSE <<"get_pending_hosts">>)

\* the calls of the reconciliation of thread t: updater and status calls
Reconciled(t) ==
    SelectSeq(th[t].calls, LAMBDA c : c.port \in {"update_ip", "update_host_status"})

\* C22: the port calls of one handler invocation are made in the order
\* get_public_ip, update_last_check, get_ip, then set_ip and get_hosts when
\* the IP changed or get_pending_hosts when it did not, then the per-host
\* calls; set_ip is called with the discovered IP and precedes every updater
\* call of a Changed cycle.
C22_PortCallOrder ==
    \A t \in Threads :
        th[t].op = "handler" =>
            LET ports == PortsOf(t)
                before == BeforeReconciliation(t)
            IN  /\ \/ IsPrefix(ports, before)
                   \/ /\ IsPrefix(before, ports)
                      /\ \A n \in Len(before) + 1..Len(ports) :
                             ports[n] \in {"update_ip", "update_host_status"}
                /\ \A n \in 1..Len(ports) :
                       ports[n] = "set_ip" => th[t].calls[n].ip = th[t].calls[1].ip
                /\ (ChangedCycle(t) /\ CallsTo(t, "update_ip") # <<>>) =>
                       /\ ports[4] = "set_ip"
                       /\ StoredIp(state) = th[t].ip

\* C22 witness: a Changed cycle over two hosts has made all its calls.
C22_Witness ==
    \E t \in Threads :
        /\ Done(t, "handler") /\ ChangedCycle(t)
        /\ PortsOf(t) = <<"get_public_ip", "update_last_check", "get_ip", "set_ip",
                          "get_hosts", "update_ip", "update_host_status",
                          "update_ip", "update_host_status">>

\* C23: in the reconciliation the status call for a host follows the updater
\* call for that host and precedes the updater call for the next host, so
\* that at every point of the loop each host attempted before the current one
\* has its outcome in the hosts table.
C23_OutcomePersistedAtOnce ==
    \A t \in Threads :
        th[t].op = "handler" =>
            LET r == Reconciled(t)
            IN  /\ \A n \in 1..Len(r) :
                       /\ r[n].port = (IF n % 2 = 1 THEN "update_ip" ELSE "update_host_status")
                       /\ n % 2 = 0 => r[n].host = r[n - 1].host
                /\ (Len(r) % 2 = 1) = (th[t].pc = "status")
                /\ Len(CallsTo(t, "update_ip")) =
                       (IF th[t].pc = "status" THEN th[t].i
                        ELSE IF th[t].pc \in {"update", "done"} /\ Len(r) > 0 THEN th[t].i - 1
                        ELSE 0)
                /\ \A n \in 1..Len(r) :
                       (n % 2 = 1 /\ n < Len(r)) =>
                           /\ InTable(hosts, r[n].host)
                           /\ RowOf(hosts, r[n].host).last_update = clock
                           /\ RowOf(hosts, r[n].host).last_status =
                                  (IF ~r[n].res.raised /\ r[n].res.ok THEN "True" ELSE "False")

\* C23 witness: the second host is being attempted while the outcome of the
\* first, a failure, is already in the table.
C23_Witness ==
    \E t \in Threads :
        /\ th[t].op = "handler" /\ th[t].pc = "status" /\ th[t].i = 2
        /\ hosts[1].last_status = "False" /\ hosts[1].last_update = clock
        /\ hosts[2].last_update # clock

\* C24: when the updater raises for a host, the next call of the cycle
\* persists that host as failed with the text of the exception, the loop
\* goes on to the hosts that remain and the cycle returns normally.
C24_UpdaterExceptionIsolated ==
    \A t \in Threads :
        th[t].op = "handler" =>
            LET r == Reconciled(t)
            IN  /\ \A n \in 1..Len(r) :
                       (r[n].port = "update_ip" /\ r[n].res.raised) =>
                           /\ th[t].pc # "done" \/ th[t].ret = "ok"
                           /\ n < Len(r) =>
                                  /\ r[n + 1] = Call("update_host_status", r[n].host, NoIp,
                                                     [raised |-> FALSE, ok |-> FALSE,
                                                      err |-> r[n].res.err])
                                  /\ RowOf(hosts, r[n].host).last_status = "False"
                                  /\ RowOf(hosts, r[n].host).last_error = r[n].res.err
                /\ (Done(t, "handler") /\ Discovered(t)) => Updated(t) = th[t].sel

\* C24 witness: the updater raised for the first of two hosts, the second
\* host was updated with success and the cycle returned.
C24_Witness ==
    \E t \in Threads :
        /\ Done(t, "handler") /\ th[t].ret = "ok"
        /\ Len(CallsTo(t, "update_ip")) = 2
        /\ CallsTo(t, "update_ip")[1].res.raised
        /\ CallsTo(t, "update_ip")[2].res.ok
        /\ hosts[1].last_status = "False" /\ hosts[1].last_error = "E"
        /\ hosts[2].last_status = "True"

\* ============================== repository errors in the reconciliation

\* the repository calls of the invocation of thread t that raised: positions
\* in its call trace
RaisedAt(t) ==
    {n \in 1..Len(th[t].calls) :
        /\ th[t].calls[n].port \notin {"get_public_ip", "update_ip"}
        /\ th[t].calls[n].res.raised}

\* C25: a handler invocation in which a repository call raised (a status
\* call of the reconciliation included) ends by raising RuntimeError, and the
\* error is not written to a host row as that host's failure.
C25_RepositoryErrorPropagates ==
    \A t \in Threads :
        (Done(t, "handler") /\ RaisedAt(t) # {}) =>
            /\ th[t].ret = "RuntimeError"
            /\ \A n \in 1..Len(hosts) :
                   hosts[n].last_update = clock => hosts[n].last_error # RepositoryError.err

\* C26: when a cycle has completed its reconciliation, the row of each host
\* it attempted holds the outcome the updater gave for that host (success
\* for an accepted update, failure otherwise) and the cycle made one status
\* call for each updater call.
C26_StatusIsUpdaterOutcome ==
    \A t \in Threads :
        (Done(t, "handler") /\ th[t].ret = "ok") =>
            /\ Len(CallsTo(t, "update_host_status")) = Len(CallsTo(t, "update_ip"))
            /\ \A n \in 1..Len(CallsTo(t, "update_ip")) :
                   LET c == CallsTo(t, "update_ip")[n]
                   IN  InTable(hosts, c.host) =>
                           RowOf(hosts, c.host).last_status =
                               (IF ~c.res.raised /\ c.res.ok THEN "True" ELSE "False")

\* ============================================================ convergence

\* C21: once the IP has stopped changing, the cycles come to rest with every
\* configured host in status success and bound at the provider to the
\* current IP: a cycle that discovers the IP, finds it equal to the stored
\* one and makes no updater call (as every later cycle then does) finds the
\* hosts in that state.
C21_RestMeansConverged ==
    \A t \in Threads :
        (/\ Done(t, "handler") /\ th[t].ret = "ok"
         /\ UnchangedCycle(t)
         /\ CallsTo(t, "update_ip") = <<>>) =>
            \A n \in 1..Len(hosts) :
                /\ hosts[n].last_status = "True"
                /\ dns[hosts[n].hostname] = th[t].ip

\* ================================================ order of an iteration

\* C27: in each iteration of run() the settings read is followed by the
\* sleep and the sleep by the handler() call: the scheduler enters handler()
\* only from the end of a sleep that lasted the whole interval read in that
\* iteration, the first call after start included.
C27_SleepBeforeCycle ==
    [][/\ (sch.pc = "settings" /\ SchedulerMoves) => sch'.pc \in {"sleep_check", "sleeping"}
       /\ (sch'.pc = "running" /\ sch.pc # "running") =>
              (sch.pc = "sleep_check" /\ sch.slept = sch.interval)]_vars

\* ======================================== failures inside an iteration

\* self.repository.get_settings() raises (the session fails, database.py
\* get_db_session re-raises): the call is outside the try of run(), the
\* exception leaves run() and the thread ends
SchedulerSettingsError ==
    /\ sch.pc = "settings"
    /\ sch' = [sch EXCEPT !.pc = "dead"]
    /\ UNCHANGED <<hosts, state, history, clock, th, dns, settings, stop, req, lap>>

\* The scheduler thread with a settings read that may raise.
NextSchedFault ==
    \/ NextSched
    \/ SchedulerSettingsError

SpecSchedFault == Init /\ [][NextSchedFault]_vars

\* C28: run() is left only when the stop event is set: whatever fails inside
\* an iteration (the settings read, the handler() call), the loop is still
\* running while the event is unset.
C28_LoopEndsOnlyOnStop == sch.pc \in {"exit", "dead"} => stop

\* ================================================ outbound network calls

\* C29: a DNS update request to a provider that never answers ends, through
\* a bounded timeout, with update_ip returning a failure result; the call is
\* never left waiting.
C29_SilentProviderIsAFailure ==
    (req.net = "silent" /\ req.pc # "called") =>
        /\ req.pc = "returned"
        /\ ~req.ret.raised /\ ~req.ret.ok

\* ===================================================== IP discovery
\* The texts that are IPv4 or IPv6 addresses, written out by hand with the
\* address each denotes, are what get_public_ip is compared with.

\* C30: get_public_ip returns the validated IPv4 or IPv6 address the
\* discovery service answered with, and raises in every other case (the
\* library raised, or its answer is no address): it never returns a default
\* or an earlier address.
C30_AddressOrRaise ==
    LET octet == [f \in {<<"1">>, <<"2", "5", "5">>} |-> IF f = <<"1">> THEN 1 ELSE 255]
        v4 == {[text |-> a \o <<".">> \o b \o <<".">> \o c \o <<".">> \o d,
                words |-> <<octet[a], octet[b], octet[c], octet[d]>>] :
                   a, b, c, d \in DOMAIN octet}
        v6 ==
            {[text |-> <<":", ":">>,
              words |-> <<0, 0, 0, 0, 0, 0, 0, 0>>],
             [text |-> <<":", ":", "1">>,
              words |-> <<0, 0, 0, 0, 0, 0, 0, 1>>],
             [text |-> <<"1", ":", ":">>,
              words |-> <<1, 0, 0, 0, 0, 0, 0, 0>>],
             [text |-> <<"2", "0", "0", "1", ":", "d", "b", "8", ":", ":", "1">>,
              words |-> <<8193, 3512, 0, 0, 0, 0, 0, 1>>],
             [text |-> <<"1", ":", "2", ":", "3", ":", "4", ":", "5", ":", "6", ":", "7", ":", "8">>,
              words |-> <<1, 2, 3, 4, 5, 6, 7, 8>>],
             [text |-> <<"1", ":", "2", ":", "3", ":", "4", ":", "5", ":", "6", ":", "7", ":", ":">>,
              words |-> <<1, 2, 3, 4, 5, 6, 7, 0>>],
             [text |-> <<"f", "f", "f", "f", ":", ":", "f", "f", "f", "f">>,
              words |-> <<65535, 0, 0, 0, 0, 0, 0, 65535>>]}
        known(version) == IF version = 4 THEN v4 ELSE v6
    IN  req.pc = "answered" =>
            IF req.net = "text" /\ \E k \in v4 \cup v6 : k.text = req.body
            THEN /\ ~req.ret.raised
                 /\ req.ret.version \in {4, 6}
                 /\ [text |-> req.body, words |-> req.ret.words] \in known(req.ret.version)
            ELSE req.ret = Raised("RuntimeError")

\* C30 witness: the service answered "1.1.1.256", which is no address, and
\* get_public_ip raised RuntimeError.
C30_Witness ==
    /\ req.pc = "answered"
    /\ req.net = "text"
    /\ req.body = <<"1", ".", "1", ".", "1", ".", "2", "5", "6">>
    /\ req.ret = Raised("RuntimeError")

\* ===================================================== forced update
\* force_update_host for a hostname that had a row when the invocation began.

\* the forced update of thread t is for an existing host
ForceExisting(t) == th[t].op = "force" /\ InTable(th[t].pre.hosts, th[t].arg)

\* the forced update of thread t asked the IP provider and the provider raised
DiscoveryFailed(t) ==
    /\ CallsTo(t, "get_public_ip") # <<>>
    /\ CallsTo(t, "get_public_ip")[1].res.raised

\* C31 as claimed: every forced update of an existing host calls
\* update_last_check.
C31_ForceAlwaysLastCheck ==
    \A t \in Threads :
        (Done(t, "force") /\ ForceExisting(t)) =>
            CallsTo(t, "update_last_check") # <<>>

\* C31 as amended: a forced update of an existing host calls
\* update_last_check once and leaves last_check at the time of the
\* invocation, with or without a discovery and whatever the updater
\* answers, unless its discovery raised; then it makes no such call and
\* last_check stays as it was.
C31_ForceLastCheckUnlessDiscoveryFails ==
    \A t \in Threads :
        (Done(t, "force") /\ ForceExisting(t)) =>
            IF DiscoveryFailed(t)
            THEN /\ CallsTo(t, "update_last_check") = <<>>
                 /\ state.last_check = th[t].pre.state.last_check
            ELSE /\ Len(CallsTo(t, "update_last_check")) = 1
                 /\ state.last_check = clock

\* C31 witness: a forced update with an IP stored by an earlier invocation,
\* whose update the provider refused, moved last_check on.
C31_Witness ==
    \E t \in Threads :
        /\ Done(t, "force") /\ ForceExisting(t)
        /\ StoredIp(th[t].pre.state) # NoIp
        /\ th[t].ret = "False"
        /\ th[t].pre.state.last_check < clock
        /\ state.last_check = clock

\* C32: a forced update of an existing host while an IP is stored never
\* calls the IP provider or set_ip; it calls the DNS updater once, for that
\* host and with the stored IP, and leaves the stored IP and the row of
\* every other host as they were.
C32_ForceUsesStoredIp ==
    \A t \in Threads :
        (ForceExisting(t) /\ StoredIp(th[t].pre.state) # NoIp) =>
            /\ CallsTo(t, "get_public_ip") = <<>>
            /\ CallsTo(t, "set_ip") = <<>>
            /\ state.current_ip = th[t].pre.state.current_ip
            /\ Len(hosts) = Len(th[t].pre.hosts)
            /\ \A n \in 1..Len(hosts) :
                   hosts[n].hostname # th[t].arg => hosts[n] = th[t].pre.hosts[n]
            /\ \A n \in 1..Len(CallsTo(t, "update_ip")) :
                   /\ CallsTo(t, "update_ip")[n].host = th[t].arg
                   /\ CallsTo(t, "update_ip")[n].ip = StoredIp(th[t].pre.state)
            /\ \A n \in 1..Len(CallsTo(t, "update_host_status")) :
                   CallsTo(t, "update_host_status")[n].host = th[t].arg
            /\ Done(t, "force") =>
                   /\ Len(CallsTo(t, "update_ip")) = 1
                   /\ Len(CallsTo(t, "update_host_status")) = 1

\* C32 witness: with an IP stored and two hosts, the forced update of one
\* ran to its end while the other, updated earlier, kept its row.
C32_Witness ==
    \E t \in Threads :
        /\ Done(t, "force") /\ ForceExisting(t)
        /\ StoredIp(th[t].pre.state) # NoIp
        /\ Len(hosts) = 2
        /\ \E n \in 1..2 :
               /\ hosts[n].hostname # th[t].arg
               /\ hosts[n].last_status # None
               /\ hosts[n].last_update < clock
        /\ RowOf(hosts, th[t].arg).last_update = clock

\* C33: a forced update of an existing host returns a (success, message)
\* pair and raises nothing; the success flag it returns is the status it
\* persisted for the host; when the discovery raised, or the updater raised
\* or answered with a failure, it returns False with the message of that
\* failure and the host's row holds status failure with the same message.
C33_ForceFailureIsReturned ==
    \A t \in Threads :
        (Done(t, "force") /\ ForceExisting(t)) =>
            LET row == RowOf(hosts, th[t].arg)
                upd == CallsTo(t, "update_ip")
                failed == \/ DiscoveryFailed(t)
                          \/ upd # <<>> /\ (upd[1].res.raised \/ ~upd[1].res.ok)
            IN  /\ th[t].ret \in {"True", "False"}
                /\ row.last_status = th[t].ret
                /\ row.last_update = clock
                /\ th[t].ret = "False" <=> failed
                /\ failed =>
                       /\ th[t].msg = th[t].res.err
                       /\ row.last_error = th[t].msg

\* C33 witness: the discovery of a forced update raised; the invocation
\* returned False and the host's row holds the failure and its message.
C33_Witness ==
    \E t \in Threads :
        /\ Done(t, "force") /\ ForceExisting(t)
        /\ DiscoveryFailed(t)
        /\ th[t].ret = "False" /\ th[t].msg = "E"
        /\ RowOf(hosts, th[t].arg).last_status = "False"
        /\ RowOf(hosts, th[t].arg).last_error = "E"

\* ===================================================== new hosts
\* C34: a host that was created and never attempted has no status and is in
\* the pending set; a handler cycle whose discovered IP equals the stored
\* one attempts each such host once and attempts no host in status success.
C34_NewHostIsPending ==
    /\ \A n \in 1..Len(hosts) :
           hosts[n].last_update = NoTime =>
               /\ hosts[n].last_status = None
               /\ IsPending(hosts, hosts[n].hostname)
    /\ \A t \in Threads :
           (Done(t, "handler") /\ UnchangedCycle(t)) =>
               \A n \in 1..Len(th[t].pre.hosts) :
                   LET r == th[t].pre.hosts[n]
                   IN  /\ r.last_status = None => Len(AttemptsOn(t, r.hostname)) = 1
                       /\ r.last_status = "True" => AttemptsOn(t, r.hostname) = <<>>

\* C34 witness: a host was created after another had been updated with the
\* stored IP; the next cycle found the IP unchanged, attempted the new host
\* and not the other.
C34_Witness ==
    \E t \in Threads :
        /\ Done(t, "handler") /\ UnchangedCycle(t)
        /\ Len(th[t].pre.hosts) = 2
        /\ th[t].pre.hosts[1].last_status = "True"
        /\ th[t].pre.hosts[2].last_status = None
        /\ th[t].pre.hosts[2].last_update = NoTime
        /\ Updated(t) = <<th[t].pre.hosts[2].hostname>>

\* ===================================================== host records
\* The administration of one host (routers/hosts.py: create, edit) between
\* controller invocations.

\* the ids a host row can have, and the values an edit can give
HostIds == 1..MaxHistory
Usernames == {None, "u2"}
Passwords == {None, "p2"}

NextHosts ==
    \/ \E hostname \in ConcHosts : Quiescent /\ create_host(hostname)
    \/ \E host_id \in HostIds, hostname \in HostNames \cup {None},
          username \in Usernames, password \in Passwords :
           Quiescent /\ update_host(host_id, hostname, username, password)
    \/ Quiescent /\ HandlerStart("scheduler")
    \/ \E hostname \in HostNames : Quiescent /\ ForceStart("api", hostname)
    \/ \E t \in Threads : HandlerStep(t)
    \/ \E t \in Threads : ForceStep(t)

SpecHosts == Init /\ [][NextHosts]_vars

\* last_update, last_status and last_error of a host row
OutcomeOf(r) == <<r.last_update, r.last_status, r.last_error>>

\* this step is the update_host_status call of thread t for hostname h
StatusCall(t, h) ==
    /\ Len(th'[t].calls) = Len(th[t].calls) + 1
    /\ th'[t].calls[Len(th'[t].calls)].port = "update_host_status"
    /\ th'[t].calls[Len(th'[t].calls)].host = h

InitRepo ==
    /\ hosts = <<>> /\ state = NoState /\ history = <<>> /\ clock = 1
    /\ th = [t \in Threads |-> Idle]
    /\ dns = [h \in HostNames |-> NoIp]
    /\ settings = DefaultSettings /\ sch = NewScheduler /\ stop = FALSE
    /\ req = NoRequest /\ lap = NoLap

\* time passes
Tick ==
    /\ clock < MaxOps
    /\ clock' = clock + 1
    /\ UNCHANGED <<hosts, state, history, th, dns, schedVars, req, lap>>

\* SqliteRepository.set_ip
set_ip(ip) ==
    /\ IpStr(ip) # (IF state.exists THEN state.current_ip ELSE None) => HistoryRoom
    /\ state' = set_ip_state(ip)
    /\ history' = set_ip_history(ip)
    /\ UNCHANGED <<hosts, clock, th, dns, schedVars, req, lap>>

\* SqliteRepository.update_host_status
update_host_status(hostname, success, error) ==
    /\ HostExists(hostname) => HistoryRoom
    /\ hosts' = update_host_status_hosts(hostname, success, error)
    /\ history' = update_host_status_history(hostname, success, error)
    /\ UNCHANGED <<state, clock, th, dns, schedVars, req, lap>>

NextRepo ==
    \/ Tick
    \/ \E ip \in IPs : set_ip(ip)
    \/ \E hostname \in HostNames, out \in UpdaterOutcomes :
           ~out.raised /\ update_host_status(hostname, out.ok, out.err)
    \/ \E hostname \in HostNames : create_host(hostname)
    \/ \E host_id \in HostIds, hostname \in HostNames :
           update_host(host_id, hostname, None, None)
    \/ \E hostname \in HostNames : delete_host(hostname)

SpecRepo == InitRepo /\ [][NextRepo]_vars

\* C36: every step keeps the history records it found, in their places, and
\* appends at most one. A set_ip step appends one ip_changed record when the
\* stored IP changes and nothing when it stays; a step that changes the
\* outcome of a host appends one record, host_updated for status success and
\* host_failed for status failure; and such a record is appended only for a
\* host that has a row.
C36_HistoryAppendOnly ==
    [][LET old_ip == IF state.exists THEN state.current_ip ELSE None
           last == history'[Len(history')]
       IN  /\ IsPrefix(history, history')
           /\ Len(history') <= Len(history) + 1
           /\ state' # state =>
                  IF state'.current_ip # old_ip
                  THEN history' = Append(history,
                                         HistoryRow(state'.current_ip, "ip_changed", None,
                                                    <<old_ip, state'.current_ip>>))
                  ELSE history' = history
           /\ \A n \in 1..Len(hosts), m \in 1..Len(hosts') :
                  (hosts[n].id = hosts'[m].id /\ OutcomeOf(hosts'[m]) # OutcomeOf(hosts[n])) =>
                      /\ Len(history') = Len(history) + 1
                      /\ last.hostname = hosts[n].hostname
                      /\ last.action = (IF hosts'[m].last_status = "True"
                                        THEN "host_updated" ELSE "host_failed")
           /\ (/\ Len(history') = Len(history) + 1
               /\ \/ last.action = "host_failed"
                  \/ last.action = "host_updated" /\ last.details = "DNS update successful") =>
                  /\ InTable(hosts', last.hostname)
                  /\ RowOf(hosts', last.hostname).last_status =
                         (IF last.action = "host_updated" THEN "True" ELSE "False")
                  /\ RowOf(hosts', last.hostname).last_update = clock]_vars

\* C36 witness: a host was created, an IP was stored, the host's update
\* failed and later succeeded; the history holds these four records, one for
\* each, in that order.
C36_Witness ==
    /\ Len(history) = 4
    /\ history[1].action = "host_created"
    /\ history[2] = HistoryRow(IpStr(1), "ip_changed", None, <<None, IpStr(1)>>)
    /\ history[3] = HistoryRow(None, "host_failed", "h1", "X")
    /\ history[4] = HistoryRow(None, "host_updated", "h1", "DNS update successful")
    /\ state.last_check = 2 /\ StoredIp(state) = 1
    /\ RowOf(hosts, "h1").last_status = "True"
    /\ RowOf(hosts, "h1").last_update = 3

\* ===================================================== hostnames
\* The hosts endpoints of the administration API (routers/hosts.py), one
\* request after another; th["api"] holds the last POST /api/hosts request
\* and the status code of its response.

\* the create_host endpoint without the UNIQUE constraint behind it
post_hosts_unchecked(hostname) ==
    /\ HistoryRoom
    /\ hosts' = Append(hosts, [id |-> NextId, hostname |-> hostname,
                               username |-> "u1", password |-> "p1",
                               last_status |-> None, last_error |-> None,
                               last_update |-> NoTime])
    /\ history' = Append(history, HistoryRow(None, "host_created", hostname, hostname))
    /\ th' = [th EXCEPT !["api"] = [Idle EXCEPT !.op = "create_host", !.pc = "done",
                                                !.arg = hostname, !.ret = "201"]]
    /\ UNCHANGED <<state, clock, dns, schedVars, req, lap>>

\* the create_host endpoint: repository.create_host, and 409 for the
\* IntegrityError ("UNIQUE constraint failed") of an existing hostname, whose
\* transaction is rolled back
post_hosts(hostname) ==
    /\ HistoryRoom
    /\ IF HostExists(hostname)
       THEN /\ UNCHANGED <<hosts, history>>
            /\ th' = [th EXCEPT !["api"] = [Idle EXCEPT !.op = "create_host", !.pc = "done",
                                                        !.arg = hostname, !.ret = "409"]]
       ELSE /\ hosts' = Append(hosts, [id |-> NextId, hostname |-> hostname,
                                       username |-> "u1", password |-> "p1",
                                       last_status |-> None, last_error |-> None,
                                       last_update |-> NoTime])
            /\ history' = Append(history, HistoryRow(None, "host_created", hostname, hostname))
            /\ th' = [th EXCEPT !["api"] = [Idle EXCEPT !.op = "create_host", !.pc = "done",
                                                        !.arg = hostname, !.ret = "201"]]
    /\ UNCHANGED <<state, clock, dns, schedVars, req, lap>>

NextApiHosts ==
    \/ \E hostname \in HostNames : post_hosts(hostname)
    \/ \E host_id \in HostIds, hostname \in HostNames \cup {None},
          username \in Usernames, password \in Passwords :
           update_host(host_id, hostname, username, password)
    \/ \E hostname \in HostNames : delete_host(hostname)

SpecApiHosts == Init /\ [][NextApiHosts]_vars

\* C37: no two host rows have the same hostname, whatever hosts were
\* created, edited and deleted; and a request to create a host whose
\* hostname has a row is answered with 409 and leaves the hosts table and
\* the history as they were, while one for a free hostname adds one row.
C37_HostnameIsUnique ==
    /\ [](\A n, m \in 1..Len(hosts) : hosts[n].hostname = hosts[m].hostname => n = m)
    /\ [][th'["api"] # th["api"] =>
              IF HostExists(th'["api"].arg)
              THEN /\ th'["api"].ret = "409"
                   /\ hosts' = hosts
                   /\ history' = history
              ELSE /\ th'["api"].ret = "201"
                   /\ Len(hosts') = Len(hosts) + 1
                   /\ SubSeq(hosts', 1, Len(hosts)) = hosts
                   /\ hosts'[Len(hosts')].hostname = th'["api"].arg]_vars

\* C37 witness: with two hosts, one of them renamed since its creation, the
\* last request to create a host named a hostname that has a row and was
\* answered with 409.
C37_Witness ==
    /\ th["api"].op = "create_host" /\ th["api"].ret = "409"
    /\ Len(hosts) = 2
    /\ InTable(hosts, th["api"].arg)
    /\ hosts[1].hostname # hosts[2].hostname
    /\ \E n \in 1..Len(history) :
           history[n].action = "host_updated" /\ history[n].hostname = th["api"].arg

====
